---- MODULE Spec2Model ----
(***************************************************************************)
(* A model of the Mello-Refactor global hotkey engine:                     *)
(*   KeyboardHook   - the owner of the WH_KEYBOARD_LL hook, the modifier   *)
(*                    state and the table of hotkey callbacks;             *)
(*   HotkeyManager  - the locked facade that owns one KeyboardHook and     *)
(*                    the table of HotkeyActions.                          *)
(* A 64-bit value is kept as two 32-bit limbs [hi, lo]; a DWORD is a       *)
(* natural number.                                                         *)
(***************************************************************************)
EXTENDS Integers, Sequences, FiniteSets, TLC

\* ------------------------------------------------------------------ bounds
\* The largest number of entries a HotkeyManager table is driven to.
MaxHotkeys == 2
\* The largest number of OS hooks that stay installed after a refused unhook.
MaxLeakedHooks == 1

\* ------------------------------------------------------- program constants
MOD_NONE == 0
MOD_WIN == 1
MOD_CTRL == 2
MOD_SHIFT == 4
MOD_ALT == 8

VK_SHIFT == 16
VK_CONTROL == 17
VK_MENU == 18
VK_LWIN == 91
VK_RWIN == 92
VK_LSHIFT == 160
VK_RSHIFT == 161
VK_LCONTROL == 162
VK_RCONTROL == 163
VK_LMENU == 164
VK_RMENU == 165
VK_F1 == 112
VK_N == 78

HC_ACTION == 0
\* A hook code below zero: the event carries no actionable keyboard data.
HC_SKIP == -1

nullptr == "nullptr"
HHOOK == "HHOOK"

KeyDownMessages == {"WM_KEYDOWN", "WM_SYSKEYDOWN"}
KeyUpMessages == {"WM_KEYUP", "WM_SYSKEYUP"}
KeyMessages == KeyDownMessages \cup KeyUpMessages

\* The two HotkeyManager objects of the process; the KeyboardHook a manager
\* constructs is named after the manager that owns it.
Managers == {"A", "B"}
\* The user actions (std::function<void()>) and their descriptions.
Actions == {"actA", "actB"}
Descriptions == {"first", "second"}

\* ------------------------------------------------------------- bit helpers
RECURSIVE BitOr(_, _)
BitOr(a, b) ==
    IF a = 0 THEN b
    ELSE IF b = 0 THEN a
    ELSE (IF a % 2 = 1 \/ b % 2 = 1 THEN 1 ELSE 0) + 2 * BitOr(a \div 2, b \div 2)

\* static_cast<uint64_t>(d): the DWORD in the low limb.
ToUint64(d) == [hi |-> 0, lo |-> d]
\* Mutant: the shift is left out.
ShiftLeft32_NoShift(u) == u

\* u << 32 on a uint64_t: the low limb moves up, the old high limb is lost.
ShiftLeft32(u) == [hi |-> u.lo, lo |-> 0]
\* u | d with d a DWORD promoted to uint64_t.
OrDword(u, d) == [hi |-> u.hi, lo |-> BitOr(u.lo, d)]

\* (static_cast<uint64_t>(modifiers) << 32) | vkCode
MakeHotkeyKey(vkCode, modifiers) == OrDword(ShiftLeft32(ToUint64(modifiers)), vkCode)

\* HotkeyManager::MakeHotkeyKey, the private copy of the manager.
HotkeyManager_MakeHotkeyKey(vkCode, modifiers) ==
    OrDword(ShiftLeft32(ToUint64(modifiers)), vkCode)

\* HotkeyConfig(vk, mods, act, desc) and its GetUniqueId().
HotkeyConfig(vk, mods, act, desc) ==
    [vkCode |-> vk, modifiers |-> mods, action |-> act, description |-> desc,
     enabled |-> TRUE]
HotkeyConfig_GetUniqueId(c) == OrDword(ShiftLeft32(ToUint64(c.modifiers)), c.vkCode)

\* ------------------------------------------------------------ KeyboardHook
\* std::function<void(DWORD, DWORD)> values: the empty function, and the
\* lambda HotkeyManager::RegisterHotkey builds around a user action.
NullCallback == [kind |-> "null", action |-> nullptr]
ForwardingCallback(action) == [kind |-> "forward", action |-> action]
\* A callable the caller hands to KeyboardHook::RegisterHotkey itself.
DirectCallback(f) == [kind |-> "direct", action |-> f]
IsCallable(cb) == cb.kind # "null"

NoCallbacks == [k \in {} |-> NullCallback]

\* The object the constructor leaves behind.
NewKeyboardHook ==
    [m_hookHandle |-> nullptr,
     m_winKeyDown |-> FALSE,
     m_ctrlKeyDown |-> FALSE,
     m_shiftKeyDown |-> FALSE,
     m_altKeyDown |-> FALSE,
     m_hotkeyCallbacks |-> NoCallbacks]

IsInstalled(h) == h.m_hookHandle # nullptr

\* Install: granted is the answer of SetWindowsHookEx. Result: the hook
\* object, the return value, and the number of OS hooks added.
\* Mutant: no test of the handle before SetWindowsHookEx.
KeyboardHook_Install_NoGuard(h, granted) ==
    IF granted
    THEN [hook |-> [h EXCEPT !.m_hookHandle = HHOOK], ret |-> TRUE, added |-> 1]
    ELSE [hook |-> [h EXCEPT !.m_hookHandle = nullptr], ret |-> FALSE, added |-> 0]

KeyboardHook_Install(h, granted) ==
    IF h.m_hookHandle # nullptr
    THEN [hook |-> h, ret |-> TRUE, added |-> 0]
    ELSE IF granted
         THEN [hook |-> [h EXCEPT !.m_hookHandle = HHOOK], ret |-> TRUE, added |-> 1]
         ELSE [hook |-> h, ret |-> FALSE, added |-> 0]

\* Uninstall: honoured is the answer of UnhookWindowsHookEx. Result: the hook
\* object, the return value, the answer of the OS ("not asked" when
\* UnhookWindowsHookEx is not called) and the number of OS hooks removed.
\* Mutant: the modifier flags are not reset.
KeyboardHook_Uninstall_KeepsFlags(h, honoured) ==
    IF h.m_hookHandle = nullptr
    THEN [hook |-> h, ret |-> TRUE, os |-> "not asked", removed |-> 0]
    ELSE [hook |-> [h EXCEPT !.m_hookHandle = nullptr],
          ret |-> honoured,
          os |-> IF honoured THEN "honoured" ELSE "refused",
          removed |-> IF honoured THEN 1 ELSE 0]

KeyboardHook_Uninstall(h, honoured) ==
    IF h.m_hookHandle = nullptr
    THEN [hook |-> h, ret |-> TRUE, os |-> "not asked", removed |-> 0]
    ELSE [hook |-> [h EXCEPT !.m_hookHandle = nullptr,
                             !.m_winKeyDown = FALSE,
                             !.m_ctrlKeyDown = FALSE,
                             !.m_shiftKeyDown = FALSE,
                             !.m_altKeyDown = FALSE],
          ret |-> honoured,
          os |-> IF honoured THEN "honoured" ELSE "refused",
          removed |-> IF honoured THEN 1 ELSE 0]

\* Mutant: an existing binding is kept (insert instead of operator[]).
KeyboardHook_RegisterHotkey_KeepsFirst(h, vkCode, modifiers, callback) ==
    IF ~IsCallable(callback)
    THEN h
    ELSE [h EXCEPT !.m_hotkeyCallbacks =
              h.m_hotkeyCallbacks @@ (MakeHotkeyKey(vkCode, modifiers) :> callback)]

KeyboardHook_RegisterHotkey(h, vkCode, modifiers, callback) ==
    IF ~IsCallable(callback)
    THEN h
    ELSE [h EXCEPT !.m_hotkeyCallbacks =
              (MakeHotkeyKey(vkCode, modifiers) :> callback) @@ h.m_hotkeyCallbacks]

\* Mutant: the binding stays in the table.
KeyboardHook_UnregisterHotkey_Keeps(h, vkCode, modifiers) == h

KeyboardHook_UnregisterHotkey(h, vkCode, modifiers) ==
    [h EXCEPT !.m_hotkeyCallbacks =
        [k \in DOMAIN h.m_hotkeyCallbacks \ {MakeHotkeyKey(vkCode, modifiers)}
            |-> h.m_hotkeyCallbacks[k]]]

\* Mutant: the modifier flags are reset with the table.
KeyboardHook_ClearAllHotkeys_ResetsFlags(h) ==
    [h EXCEPT !.m_hotkeyCallbacks = NoCallbacks,
              !.m_winKeyDown = FALSE, !.m_ctrlKeyDown = FALSE,
              !.m_shiftKeyDown = FALSE, !.m_altKeyDown = FALSE]

\* Mutant: the bindings stay in the table.
KeyboardHook_ClearAllHotkeys_Keeps(h) == h

KeyboardHook_ClearAllHotkeys(h) == [h EXCEPT !.m_hotkeyCallbacks = NoCallbacks]

\* Mutant: a release of a Ctrl key does not clear the Ctrl flag.
UpdateModifierState_StickyCtrl(h, vkCode, isKeyDown) ==
    IF vkCode \in {VK_LWIN, VK_RWIN}
    THEN [h EXCEPT !.m_winKeyDown = isKeyDown]
    ELSE IF vkCode \in {VK_LCONTROL, VK_RCONTROL, VK_CONTROL}
    THEN [h EXCEPT !.m_ctrlKeyDown = @ \/ isKeyDown]
    ELSE IF vkCode \in {VK_LSHIFT, VK_RSHIFT, VK_SHIFT}
    THEN [h EXCEPT !.m_shiftKeyDown = isKeyDown]
    ELSE IF vkCode \in {VK_LMENU, VK_RMENU, VK_MENU}
    THEN [h EXCEPT !.m_altKeyDown = isKeyDown]
    ELSE h

UpdateModifierState(h, vkCode, isKeyDown) ==
    IF vkCode \in {VK_LWIN, VK_RWIN}
    THEN [h EXCEPT !.m_winKeyDown = isKeyDown]
    ELSE IF vkCode \in {VK_LCONTROL, VK_RCONTROL, VK_CONTROL}
    THEN [h EXCEPT !.m_ctrlKeyDown = isKeyDown]
    ELSE IF vkCode \in {VK_LSHIFT, VK_RSHIFT, VK_SHIFT}
    THEN [h EXCEPT !.m_shiftKeyDown = isKeyDown]
    ELSE IF vkCode \in {VK_LMENU, VK_RMENU, VK_MENU}
    THEN [h EXCEPT !.m_altKeyDown = isKeyDown]
    ELSE h

\* Mutant: no key code counts as a modifier key.
IsModifierKey_Never(vkCode) == FALSE

IsModifierKey(vkCode) ==
    \/ vkCode = VK_LWIN \/ vkCode = VK_RWIN
    \/ vkCode = VK_LCONTROL \/ vkCode = VK_RCONTROL \/ vkCode = VK_CONTROL
    \/ vkCode = VK_LSHIFT \/ vkCode = VK_RSHIFT \/ vkCode = VK_SHIFT
    \/ vkCode = VK_LMENU \/ vkCode = VK_RMENU \/ vkCode = VK_MENU

\* Mutant: the Shift flag is left out of the mask.
GetCurrentModifiers_IgnoresShift(h) ==
    LET m1 == IF h.m_winKeyDown THEN BitOr(0, MOD_WIN) ELSE 0
        m2 == IF h.m_ctrlKeyDown THEN BitOr(m1, MOD_CTRL) ELSE m1
        m4 == IF h.m_altKeyDown THEN BitOr(m2, MOD_ALT) ELSE m2
    IN  m4

GetCurrentModifiers(h) ==
    LET m0 == 0
        m1 == IF h.m_winKeyDown THEN BitOr(m0, MOD_WIN) ELSE m0
        m2 == IF h.m_ctrlKeyDown THEN BitOr(m1, MOD_CTRL) ELSE m1
        m3 == IF h.m_shiftKeyDown THEN BitOr(m2, MOD_SHIFT) ELSE m2
        m4 == IF h.m_altKeyDown THEN BitOr(m3, MOD_ALT) ELSE m3
    IN  m4

\* What the call of a stored callback with (vkCode, modifiers) does: the
\* forwarding lambda runs the captured action if it is not empty, and
\* behaviour is what that user action does ("returns" or "throws").
InvokeCallback(cb, behaviour) ==
    IF cb.kind = "forward" /\ cb.action # nullptr THEN behaviour
    ELSE IF cb.kind = "direct" THEN behaviour
    ELSE "returns"

\* Mutant: no catch around the call of the callback.
TryCallback_NoCatch(cb, behaviour) ==
    IF InvokeCallback(cb, behaviour) = "throws" THEN "escaped" ELSE "returned"

\* try { it->second(vkCode, currentModifiers); } catch (...) { }
TryCallback(cb, behaviour) ==
    IF InvokeCallback(cb, behaviour) = "throws" THEN "caught" ELSE "returned"

\* Mutant: a key that fired a hotkey is consumed instead of forwarded.
ForwardsAfter_SwallowsHandled(outcome) == IF outcome = "none" THEN 1 ELSE 0

\* CallNextHookEx at the end of the handler: reached unless an exception left it.
ForwardsAfter(outcome) == IF outcome = "escaped" THEN 0 ELSE 1

\* Mutant: a binding is dropped once it has fired.
HandleKeyboardMessage_OneShot(h, nCode, wParam, vkCode, behaviour) ==
    LET isKeyDown == wParam = "WM_KEYDOWN" \/ wParam = "WM_SYSKEYDOWN"
        h1 == IF nCode = HC_ACTION THEN UpdateModifierState(h, vkCode, isKeyDown) ELSE h
        currentModifiers == GetCurrentModifiers(h1)
        key == MakeHotkeyKey(vkCode, currentModifiers)
        found == /\ nCode = HC_ACTION
                 /\ isKeyDown /\ ~IsModifierKey(vkCode)
                 /\ key \in DOMAIN h1.m_hotkeyCallbacks
                 /\ IsCallable(h1.m_hotkeyCallbacks[key])
        outcome == IF found THEN TryCallback(h1.m_hotkeyCallbacks[key], behaviour)
                   ELSE "none"
    IN  [hook |-> IF found THEN KeyboardHook_UnregisterHotkey(h1, vkCode, currentModifiers)
                  ELSE h1,
         invoked |-> IF found
                     THEN <<[callback |-> h1.m_hotkeyCallbacks[key],
                             vkCode |-> vkCode,
                             modifiers |-> currentModifiers]>>
                     ELSE <<>>,
         outcome |-> outcome,
         forwards |-> ForwardsAfter(outcome)]

\* Mutant: a key release is dispatched like a key press.
HandleKeyboardMessage_FiresOnRelease(h, nCode, wParam, vkCode, behaviour) ==
    LET isKeyDown == wParam = "WM_KEYDOWN" \/ wParam = "WM_SYSKEYDOWN"
        h1 == IF nCode = HC_ACTION THEN UpdateModifierState(h, vkCode, isKeyDown) ELSE h
        currentModifiers == GetCurrentModifiers(h1)
        key == MakeHotkeyKey(vkCode, currentModifiers)
        found == /\ nCode = HC_ACTION
                 /\ ~IsModifierKey(vkCode)
                 /\ key \in DOMAIN h1.m_hotkeyCallbacks
                 /\ IsCallable(h1.m_hotkeyCallbacks[key])
        outcome == IF found THEN TryCallback(h1.m_hotkeyCallbacks[key], behaviour)
                   ELSE "none"
    IN  [hook |-> h1,
         invoked |-> IF found
                     THEN <<[callback |-> h1.m_hotkeyCallbacks[key],
                             vkCode |-> vkCode,
                             modifiers |-> currentModifiers]>>
                     ELSE <<>>,
         outcome |-> outcome,
         forwards |-> ForwardsAfter(outcome)]

\* The instance method behind the hook procedure. Result: the hook object,
\* the calls made to callbacks, how the dispatch ended, and the number of
\* calls of CallNextHookEx.
HandleKeyboardMessage(h, nCode, wParam, vkCode, behaviour) ==
    LET isKeyDown == wParam = "WM_KEYDOWN" \/ wParam = "WM_SYSKEYDOWN"
        h1 == IF nCode = HC_ACTION THEN UpdateModifierState(h, vkCode, isKeyDown) ELSE h
        currentModifiers == GetCurrentModifiers(h1)
        key == MakeHotkeyKey(vkCode, currentModifiers)
        found == /\ nCode = HC_ACTION
                 /\ isKeyDown /\ ~IsModifierKey(vkCode)
                 /\ key \in DOMAIN h1.m_hotkeyCallbacks
                 /\ IsCallable(h1.m_hotkeyCallbacks[key])
        outcome == IF found THEN TryCallback(h1.m_hotkeyCallbacks[key], behaviour)
                   ELSE "none"
    IN  [hook |-> h1,
         invoked |-> IF found
                     THEN <<[callback |-> h1.m_hotkeyCallbacks[key],
                             vkCode |-> vkCode,
                             modifiers |-> currentModifiers]>>
                     ELSE <<>>,
         outcome |-> outcome,
         forwards |-> ForwardsAfter(outcome)]

\* Mutant: the constructor takes the slot without looking at it.
KeyboardHook_Constructor_NoCheck(instance, this) ==
    [threw |-> FALSE, s_instance |-> this]

\* KeyboardHook::KeyboardHook(): the check of the singleton slot and its
\* assignment; this is the object under construction.
KeyboardHook_Constructor(instance, this) ==
    IF instance # nullptr
    THEN [threw |-> TRUE, s_instance |-> instance]
    ELSE [threw |-> FALSE, s_instance |-> this]

\* Mutant: the destructor does not call Uninstall.
KeyboardHook_Destructor_NoUninstall(h, instance, honoured) ==
    [os |-> "not asked", removed |-> 0, s_instance |-> nullptr]

\* Mutant: the destructor leaves the singleton slot as it is.
KeyboardHook_Destructor_KeepsSlot(h, instance, honoured) ==
    [os |-> KeyboardHook_Uninstall(h, honoured).os,
     removed |-> KeyboardHook_Uninstall(h, honoured).removed,
     s_instance |-> instance]

\* KeyboardHook::~KeyboardHook(): Uninstall(), then the slot is emptied,
\* whatever it held (instance).
KeyboardHook_Destructor(h, instance, honoured) ==
    [os |-> KeyboardHook_Uninstall(h, honoured).os,
     removed |-> KeyboardHook_Uninstall(h, honoured).removed,
     s_instance |-> nullptr]

\* ------------------------------------------------------------------- state
VARIABLES
    s_instance,            \* KeyboardHook::s_instance: nullptr or a live hook
    hooks,                 \* the live KeyboardHook objects, by name
    osHooks,               \* the WH_KEYBOARD_LL hooks the OS holds for the process
    alive,                 \* which HotkeyManager objects exist
    m_hook,                \* per manager: nullptr or the hook it owns
    m_isRunning,           \* per manager
    m_registeredHotkeys,   \* per manager: identity -> HotkeyAction
    m_mutex,               \* per manager: "free" or the thread holding it
    pc,                    \* per thread: where it is inside a manager call
    last                   \* the most recent completed call and what it returned

vars == <<s_instance, hooks, osHooks, alive, m_hook, m_isRunning,
          m_registeredHotkeys, m_mutex, pc, last>>

Threads == {"t1", "t2"}
Idle == [at |-> "idle", manager |-> "none"]

NoHooks == [k \in {} |-> NewKeyboardHook]
NoHotkeys == [k \in {} |-> [vkCode |-> 0, modifiers |-> 0, action |-> nullptr,
                            description |-> ""]]

Init ==
    /\ s_instance = nullptr
    /\ hooks = NoHooks
    /\ osHooks = 0
    /\ alive = [r \in Managers |-> TRUE]
    /\ m_hook = [r \in Managers |-> nullptr]
    /\ m_isRunning = [r \in Managers |-> FALSE]
    /\ m_registeredHotkeys = [r \in Managers |-> NoHotkeys]
    /\ m_mutex = [r \in Managers |-> "free"]
    /\ pc = [t \in Threads |-> Idle]
    /\ last = [op |-> "none"]

\* Pure accessors of a manager (const methods that read under the lock).
IsRunning(r) == m_isRunning[r]
GetHotkeyCount(r) == Cardinality(DOMAIN m_registeredHotkeys[r])
LiveHooks == DOMAIN hooks

\* A call of a manager method can take the lock and run to completion.
CanCall(r) == alive[r] /\ m_mutex[r] = "free" /\ \A t \in Threads : pc[t] = Idle

\* ------------------------------------------------------------------ inputs
ModifierKeys ==
    {VK_LWIN, VK_RWIN, VK_LCONTROL, VK_RCONTROL, VK_CONTROL,
     VK_LSHIFT, VK_RSHIFT, VK_SHIFT, VK_LMENU, VK_RMENU, VK_MENU}
Behaviours == {"returns", "throws"}

RegKeys == {VK_F1, VK_N}
RegMods == {MOD_WIN, BitOr(MOD_WIN, MOD_CTRL)}
HotkeyAction(vk, mods, act, desc) ==
    [vkCode |-> vk, modifiers |-> mods, action |-> act, description |-> desc]

\* Spec drives the managers with every combination of RegKeys and RegMods,
\* two actions with their own descriptions and the empty action, and a few
\* key events.
HotkeyActionInputs ==
    {HotkeyAction(k, m, x[1], x[2]) :
        k \in RegKeys, m \in RegMods,
        x \in {<<"actA", "first">>, <<"actB", "second">>, <<nullptr, "first">>}}
FewEventKeys == {VK_LWIN, VK_LCONTROL, VK_F1, VK_N}
FewMessages == {"WM_KEYDOWN", "WM_KEYUP"}

\* SpecKeys drives one manager with a few registrations and every key event.
KeysManagers == {"A"}
KeysActionInputs ==
    {HotkeyAction(VK_F1, MOD_WIN, "actA", "first"),
     HotkeyAction(VK_F1, BitOr(MOD_WIN, MOD_CTRL), "actB", "second"),
     HotkeyAction(VK_N, BitOr(MOD_WIN, MOD_CTRL), "actA", "first")}
EventKeys == ModifierKeys \cup {VK_F1, VK_N}

\* ---------------------------------------------- HotkeyManager, one call each
\* A refused unhook leaves an OS hook behind; the model lets that happen
\* MaxLeakedHooks times.
UnhookAnswer(honoured) == honoured \/ osHooks <= MaxLeakedHooks

\* Mutant: the hook object is destroyed but the singleton slot keeps its
\* address.
ResetHook_LeavesSlot(r, honoured) ==
    IF m_hook[r] = nullptr
    THEN /\ UNCHANGED <<s_instance, hooks, osHooks, m_hook>>
    ELSE LET d == KeyboardHook_Destructor(hooks[m_hook[r]], s_instance, honoured)
         IN  /\ s_instance' = s_instance
             /\ hooks' = [k \in DOMAIN hooks \ {m_hook[r]} |-> hooks[k]]
             /\ osHooks' = osHooks - d.removed
             /\ m_hook' = [m_hook EXCEPT ![r] = nullptr]

\* m_hook.reset(): the destructor of the owned hook, if any.
ResetHook(r, honoured) ==
    IF m_hook[r] = nullptr
    THEN /\ UNCHANGED <<s_instance, hooks, osHooks, m_hook>>
    ELSE LET d == KeyboardHook_Destructor(hooks[m_hook[r]], s_instance, honoured)
         IN  /\ s_instance' = d.s_instance
             /\ hooks' = [k \in DOMAIN hooks \ {m_hook[r]} |-> hooks[k]]
             /\ osHooks' = osHooks - d.removed
             /\ m_hook' = [m_hook EXCEPT ![r] = nullptr]

\* What the reset of m_hook asks of the OS.
ResetAnswer(r, honoured) ==
    IF m_hook[r] = nullptr THEN "not asked"
    ELSE KeyboardHook_Destructor(hooks[m_hook[r]], s_instance, honoured).os

\* Mutant: Start does not look at m_isRunning.
Start_AlreadyRunning_Unchecked(r) == FALSE

\* if (m_isRunning) return true; at the head of Start.
Start_AlreadyRunning(r) == m_isRunning[r]

\* Mutant: Start catches the exception of the constructor and returns false.
Start_ConstructorThrew_Caught(r) == "false"

\* How Start ends when std::make_unique<KeyboardHook>() throws: there is no
\* try block, so the exception leaves Start through the lock_guard.
Start_ConstructorThrew(r) == "throws"

HotkeyManager_Start(r, granted) ==
    /\ CanCall(r)
    /\ IF Start_AlreadyRunning(r)
       THEN /\ last' = [op |-> "Start", manager |-> r, os |-> "not asked", ret |-> "true"]
            /\ UNCHANGED <<s_instance, hooks, osHooks, m_hook, m_isRunning>>
       ELSE LET c == KeyboardHook_Constructor(s_instance, r)
                i == KeyboardHook_Install(NewKeyboardHook, granted)
            IN  IF c.threw
                THEN /\ last' = [op |-> "Start", manager |-> r, os |-> "not asked",
                                 ret |-> Start_ConstructorThrew(r)]
                     /\ UNCHANGED <<s_instance, hooks, osHooks, m_hook, m_isRunning>>
                ELSE IF ~i.ret
                THEN \* m_hook.reset() destroys the hook just made
                     /\ s_instance' =
                            KeyboardHook_Destructor(i.hook, c.s_instance, TRUE).s_instance
                     /\ last' = [op |-> "Start", manager |-> r, os |-> "declined",
                                 ret |-> "false"]
                     /\ UNCHANGED <<hooks, osHooks, m_hook, m_isRunning>>
                ELSE /\ s_instance' = c.s_instance
                     /\ hooks' = (r :> i.hook) @@ hooks
                     /\ osHooks' = osHooks + i.added
                     /\ m_hook' = [m_hook EXCEPT ![r] = r]
                     /\ m_isRunning' = [m_isRunning EXCEPT ![r] = TRUE]
                     /\ last' = [op |-> "Start", manager |-> r, os |-> "granted",
                                 ret |-> "true"]
    /\ UNCHANGED <<alive, m_registeredHotkeys, m_mutex, pc>>

\* Mutant: Stop forgets m_isRunning = false.
Stop_Body_StaysRunning(r, honoured) ==
    IF ~m_isRunning[r]
    THEN UNCHANGED <<s_instance, hooks, osHooks, m_hook, m_isRunning,
                     m_registeredHotkeys>>
    ELSE /\ m_registeredHotkeys' = [m_registeredHotkeys EXCEPT ![r] = NoHotkeys]
         /\ ResetHook(r, honoured)
         /\ UNCHANGED m_isRunning

\* Mutant: Stop forgets m_hook.reset().
Stop_Body_KeepsHook(r, honoured) ==
    IF ~m_isRunning[r]
    THEN UNCHANGED <<s_instance, hooks, osHooks, m_hook, m_isRunning,
                     m_registeredHotkeys>>
    ELSE /\ m_registeredHotkeys' = [m_registeredHotkeys EXCEPT ![r] = NoHotkeys]
         /\ hooks' = [hooks EXCEPT ![m_hook[r]] = KeyboardHook_ClearAllHotkeys(@)]
         /\ m_isRunning' = [m_isRunning EXCEPT ![r] = FALSE]
         /\ UNCHANGED <<s_instance, osHooks, m_hook>>

\* Mutant: Stop forgets m_registeredHotkeys.clear().
Stop_Body_KeepsHotkeys(r, honoured) ==
    IF ~m_isRunning[r]
    THEN UNCHANGED <<s_instance, hooks, osHooks, m_hook, m_isRunning,
                     m_registeredHotkeys>>
    ELSE /\ ResetHook(r, honoured)
         /\ m_isRunning' = [m_isRunning EXCEPT ![r] = FALSE]
         /\ UNCHANGED m_registeredHotkeys

\* Mutant: Stop uninstalls the hook but keeps the object.
Stop_Body_UninstallsOnly(r, honoured) ==
    IF ~m_isRunning[r]
    THEN UNCHANGED <<s_instance, hooks, osHooks, m_hook, m_isRunning,
                     m_registeredHotkeys>>
    ELSE LET u == KeyboardHook_Uninstall(hooks[m_hook[r]], honoured)
         IN  /\ m_registeredHotkeys' = [m_registeredHotkeys EXCEPT ![r] = NoHotkeys]
             /\ hooks' = [hooks EXCEPT ![m_hook[r]] = KeyboardHook_ClearAllHotkeys(u.hook)]
             /\ osHooks' = osHooks - u.removed
             /\ m_isRunning' = [m_isRunning EXCEPT ![r] = FALSE]
             /\ UNCHANGED <<s_instance, m_hook>>

\* The body of Stop under the lock.
Stop_Body(r, honoured) ==
    IF ~m_isRunning[r]
    THEN UNCHANGED <<s_instance, hooks, osHooks, m_hook, m_isRunning,
                     m_registeredHotkeys>>
    ELSE /\ m_registeredHotkeys' = [m_registeredHotkeys EXCEPT ![r] = NoHotkeys]
         /\ ResetHook(r, honoured)
         /\ m_isRunning' = [m_isRunning EXCEPT ![r] = FALSE]

Stop_Answer(r, honoured) ==
    IF ~m_isRunning[r] THEN "not asked" ELSE ResetAnswer(r, honoured)

HotkeyManager_Stop(r, honoured) ==
    /\ CanCall(r)
    /\ UnhookAnswer(honoured)
    /\ Stop_Body(r, honoured)
    /\ last' = [op |-> "Stop", manager |-> r, os |-> Stop_Answer(r, honoured),
                ret |-> "void"]
    /\ UNCHANGED <<alive, m_mutex, pc>>

\* Mutant: no conflict check.
RegisterHotkey_Accepts_NoConflictCheck(r, hotkeyAction) ==
    IF ~m_isRunning[r] \/ m_hook[r] = nullptr THEN FALSE
    ELSE IF hotkeyAction.action = nullptr THEN FALSE
    ELSE TRUE

\* Mutant: no check of the action.
RegisterHotkey_Accepts_NoNullCheck(r, hotkeyAction) ==
    IF ~m_isRunning[r] \/ m_hook[r] = nullptr THEN FALSE
    ELSE IF MakeHotkeyKey(hotkeyAction.vkCode, hotkeyAction.modifiers)
                \in DOMAIN m_registeredHotkeys[r] THEN FALSE
    ELSE TRUE

\* Mutant: a registered key code is a conflict whatever its modifiers.
RegisterHotkey_Accepts_KeyCodeConflict(r, hotkeyAction) ==
    IF ~m_isRunning[r] \/ m_hook[r] = nullptr THEN FALSE
    ELSE IF hotkeyAction.action = nullptr THEN FALSE
    ELSE IF \E k \in DOMAIN m_registeredHotkeys[r] : k.lo = hotkeyAction.vkCode
    THEN FALSE
    ELSE TRUE

\* The checks of RegisterHotkey before it touches a table.
RegisterHotkey_Accepts(r, hotkeyAction) ==
    IF ~m_isRunning[r] \/ m_hook[r] = nullptr THEN FALSE
    ELSE IF hotkeyAction.action = nullptr THEN FALSE
    ELSE IF MakeHotkeyKey(hotkeyAction.vkCode, hotkeyAction.modifiers)
                \in DOMAIN m_registeredHotkeys[r] THEN FALSE
    ELSE TRUE

HotkeyManager_RegisterHotkey(r, hotkeyAction) ==
    LET key == MakeHotkeyKey(hotkeyAction.vkCode, hotkeyAction.modifiers)
        ret == RegisterHotkey_Accepts(r, hotkeyAction)
    IN  /\ CanCall(r)
        /\ (ret /\ key \notin DOMAIN m_registeredHotkeys[r])
               => GetHotkeyCount(r) < MaxHotkeys
        /\ IF ret
           THEN /\ hooks' = [hooks EXCEPT ![m_hook[r]] =
                       KeyboardHook_RegisterHotkey(@, hotkeyAction.vkCode,
                           hotkeyAction.modifiers,
                           ForwardingCallback(hotkeyAction.action))]
                /\ m_registeredHotkeys' = [m_registeredHotkeys EXCEPT ![r] =
                       (key :> hotkeyAction) @@ @]
           ELSE UNCHANGED <<hooks, m_registeredHotkeys>>
        /\ last' = [op |-> "RegisterHotkey", manager |-> r, arg |-> hotkeyAction,
                    ret |-> IF ret THEN "true" ELSE "false"]
        /\ UNCHANGED <<s_instance, osHooks, alive, m_hook, m_isRunning, m_mutex, pc>>

\* Mutant: the action stays in the table.
EraseHotkey_Keeps(table, key) == table

\* m_registeredHotkeys.erase(it) for the entry found under key.
EraseHotkey(table, key) == [k \in DOMAIN table \ {key} |-> table[k]]

\* Mutant: only the action table is erased, the binding of the hook stays.
UnregisterHotkey_Erase_RegistryOnly(r, vkCode, modifiers) ==
    /\ hooks' = hooks
    /\ m_registeredHotkeys' = [m_registeredHotkeys EXCEPT ![r] =
           EraseHotkey(@, MakeHotkeyKey(vkCode, modifiers))]

\* m_hook->UnregisterHotkey(vkCode, modifiers); m_registeredHotkeys.erase(it);
UnregisterHotkey_Erase(r, vkCode, modifiers) ==
    /\ hooks' = [hooks EXCEPT ![m_hook[r]] =
           KeyboardHook_UnregisterHotkey(@, vkCode, modifiers)]
    /\ m_registeredHotkeys' = [m_registeredHotkeys EXCEPT ![r] =
           EraseHotkey(@, MakeHotkeyKey(vkCode, modifiers))]

HotkeyManager_UnregisterHotkey(r, vkCode, modifiers) ==
    LET key == MakeHotkeyKey(vkCode, modifiers)
        ret == IF ~m_isRunning[r] \/ m_hook[r] = nullptr THEN FALSE
               ELSE key \in DOMAIN m_registeredHotkeys[r]
    IN  /\ CanCall(r)
        /\ IF ret
           THEN UnregisterHotkey_Erase(r, vkCode, modifiers)
           ELSE UNCHANGED <<hooks, m_registeredHotkeys>>
        /\ last' = [op |-> "UnregisterHotkey", manager |-> r,
                    arg |-> [vkCode |-> vkCode, modifiers |-> modifiers],
                    ret |-> IF ret THEN "true" ELSE "false"]
        /\ UNCHANGED <<s_instance, osHooks, alive, m_hook, m_isRunning, m_mutex, pc>>

\* Mutant: only the action table is cleared, the bindings of the hook stay.
ClearAllHotkeys_Body_RegistryOnly(r) ==
    /\ UNCHANGED hooks
    /\ m_registeredHotkeys' = [m_registeredHotkeys EXCEPT ![r] = NoHotkeys]

\* The body of ClearAllHotkeys under the lock.
ClearAllHotkeys_Body(r) ==
    /\ IF m_hook[r] # nullptr
       THEN hooks' = [hooks EXCEPT ![m_hook[r]] = KeyboardHook_ClearAllHotkeys(@)]
       ELSE UNCHANGED hooks
    /\ m_registeredHotkeys' = [m_registeredHotkeys EXCEPT ![r] = NoHotkeys]

HotkeyManager_ClearAllHotkeys(r) ==
    /\ CanCall(r)
    /\ ClearAllHotkeys_Body(r)
    /\ last' = [op |-> "ClearAllHotkeys", manager |-> r, ret |-> "void"]
    /\ UNCHANGED <<s_instance, osHooks, alive, m_hook, m_isRunning, m_mutex, pc>>

\* The const methods: they take the lock, read and return.
HotkeyManager_IsRunning(r) ==
    /\ CanCall(r)
    /\ last' = [op |-> "IsRunning", manager |-> r,
                ret |-> IF m_isRunning[r] THEN "true" ELSE "false"]
    /\ UNCHANGED <<s_instance, hooks, osHooks, alive, m_hook, m_isRunning,
                   m_registeredHotkeys, m_mutex, pc>>

\* Mutant: the test looks at the key code only.
HotkeyManager_IsHotkeyConflict_KeyCodeOnly(r, vkCode, modifiers) ==
    /\ CanCall(r)
    /\ last' = [op |-> "IsHotkeyConflict", manager |-> r,
                arg |-> [vkCode |-> vkCode, modifiers |-> modifiers],
                ret |-> IF \E k \in DOMAIN m_registeredHotkeys[r] : k.lo = vkCode
                        THEN "true" ELSE "false"]
    /\ UNCHANGED <<s_instance, hooks, osHooks, alive, m_hook, m_isRunning,
                   m_registeredHotkeys, m_mutex, pc>>

HotkeyManager_IsHotkeyConflict(r, vkCode, modifiers) ==
    LET key == MakeHotkeyKey(vkCode, modifiers)
    IN  /\ CanCall(r)
        /\ last' = [op |-> "IsHotkeyConflict", manager |-> r,
                    arg |-> [vkCode |-> vkCode, modifiers |-> modifiers],
                    ret |-> IF key \in DOMAIN m_registeredHotkeys[r]
                            THEN "true" ELSE "false"]
        /\ UNCHANGED <<s_instance, hooks, osHooks, alive, m_hook, m_isRunning,
                       m_registeredHotkeys, m_mutex, pc>>

\* Mutant: the walk may visit an entry twice and skip another.
Orderings_Repeats(S) == [1..Cardinality(S) -> S]

\* The orders in which an unordered_map with the keys S can be walked.
Orderings(S) ==
    {s \in [1..Cardinality(S) -> S] : \A i, j \in DOMAIN s : s[i] = s[j] => i = j}

HotkeyManager_GetRegisteredHotkeys(r) ==
    /\ CanCall(r)
    /\ \E s \in Orderings(DOMAIN m_registeredHotkeys[r]) :
           last' = [op |-> "GetRegisteredHotkeys", manager |-> r,
                    result |-> [i \in DOMAIN s |-> m_registeredHotkeys[r][s[i]]]]
    /\ UNCHANGED <<s_instance, hooks, osHooks, alive, m_hook, m_isRunning,
                   m_registeredHotkeys, m_mutex, pc>>

HotkeyManager_GetHotkeyCount(r) ==
    /\ CanCall(r)
    /\ last' = [op |-> "GetHotkeyCount", manager |-> r, size |-> GetHotkeyCount(r)]
    /\ UNCHANGED <<s_instance, hooks, osHooks, alive, m_hook, m_isRunning,
                   m_registeredHotkeys, m_mutex, pc>>

\* ~HotkeyManager(): Stop(), then the members go; the object is gone.
HotkeyManager_Destructor(r, honoured) ==
    /\ CanCall(r)
    /\ UnhookAnswer(honoured)
    /\ Stop_Body(r, honoured)
    /\ alive' = [alive EXCEPT ![r] = FALSE]
    /\ last' = [op |-> "~HotkeyManager", manager |-> r,
                os |-> Stop_Answer(r, honoured), ret |-> "void"]
    /\ UNCHANGED <<m_mutex, pc>>

\* HotkeyManager(): m_hook(nullptr), m_isRunning(false), an empty table.
HotkeyManager_Constructor(r) ==
    /\ ~alive[r]
    /\ \A t \in Threads : pc[t] = Idle
    /\ alive' = [alive EXCEPT ![r] = TRUE]
    /\ m_hook' = [m_hook EXCEPT ![r] = nullptr]
    /\ m_isRunning' = [m_isRunning EXCEPT ![r] = FALSE]
    /\ m_registeredHotkeys' = [m_registeredHotkeys EXCEPT ![r] = NoHotkeys]
    /\ last' = [op |-> "HotkeyManager", manager |-> r, ret |-> "void"]
    /\ UNCHANGED <<s_instance, hooks, osHooks, m_mutex, pc>>

\* ------------------------------------------------------- the hook procedure
\* The OS calls the static hook procedure once per installed hook and event.
LowLevelKeyboardProc(nCode, wParam, vkCode, behaviour) ==
    /\ osHooks > 0
    /\ \A t \in Threads : pc[t] = Idle
    /\ IF s_instance # nullptr
       THEN LET res == HandleKeyboardMessage(hooks[s_instance], nCode, wParam,
                                             vkCode, behaviour)
            IN  /\ hooks' = [hooks EXCEPT ![s_instance] = res.hook]
                /\ last' = [op |-> "LowLevelKeyboardProc", instance |-> s_instance,
                            nCode |-> nCode, wParam |-> wParam, vkCode |-> vkCode,
                            invoked |-> res.invoked, outcome |-> res.outcome,
                            forwards |-> res.forwards]
       ELSE /\ last' = [op |-> "LowLevelKeyboardProc", instance |-> nullptr,
                        nCode |-> nCode, wParam |-> wParam, vkCode |-> vkCode,
                        invoked |-> <<>>, outcome |-> "none", forwards |-> 1]
            /\ UNCHANGED hooks
    /\ UNCHANGED <<s_instance, osHooks, alive, m_hook, m_isRunning,
                   m_registeredHotkeys, m_mutex, pc>>

Next ==
    \/ \E r \in Managers, granted \in BOOLEAN : HotkeyManager_Start(r, granted)
    \/ \E r \in Managers, honoured \in BOOLEAN : HotkeyManager_Stop(r, honoured)
    \/ \E r \in Managers, a \in HotkeyActionInputs : HotkeyManager_RegisterHotkey(r, a)
    \/ \E r \in Managers, k \in RegKeys, m \in RegMods :
           HotkeyManager_UnregisterHotkey(r, k, m)
    \/ \E r \in Managers : HotkeyManager_ClearAllHotkeys(r)
    \/ \E r \in Managers : HotkeyManager_IsRunning(r)
    \/ \E r \in Managers, k \in RegKeys, m \in RegMods :
           HotkeyManager_IsHotkeyConflict(r, k, m)
    \/ \E r \in Managers : HotkeyManager_GetRegisteredHotkeys(r)
    \/ \E r \in Managers : HotkeyManager_GetHotkeyCount(r)
    \/ \E r \in Managers, honoured \in BOOLEAN : HotkeyManager_Destructor(r, honoured)
    \/ \E r \in Managers : HotkeyManager_Constructor(r)
    \/ \E w \in FewMessages, k \in FewEventKeys, b \in Behaviours :
           LowLevelKeyboardProc(HC_ACTION, w, k, b)

Spec == Init /\ [][Next]_vars

NextKeys ==
    \/ \E r \in KeysManagers, granted \in BOOLEAN : HotkeyManager_Start(r, granted)
    \/ \E r \in KeysManagers, honoured \in BOOLEAN : HotkeyManager_Stop(r, honoured)
    \/ \E r \in KeysManagers, a \in KeysActionInputs : HotkeyManager_RegisterHotkey(r, a)
    \/ \E w \in KeyMessages, k \in EventKeys, b \in Behaviours :
           LowLevelKeyboardProc(HC_ACTION, w, k, b)
    \/ \E b \in Behaviours : LowLevelKeyboardProc(HC_SKIP, "WM_KEYDOWN", VK_F1, b)

SpecKeys == Init /\ [][NextKeys]_vars

\* ------------------------------------------- KeyboardHook used on its own
\* A caller that owns KeyboardHook objects itself, as the KeyboardHook tests
\* do, next to manager A. The class has no lock; SpecHook runs one call at a
\* time.
HookObjects == {"hook1", "hook2"}
HookKeys == {VK_F1}
HookMods == {MOD_WIN, BitOr(MOD_WIN, MOD_CTRL)}
HookCallbacks == {DirectCallback("cbA"), DirectCallback("cbB"), NullCallback}
HookEventKeys == {VK_LWIN, VK_LCONTROL, VK_F1}
HookManagers == {"A"}
HookActionInputs ==
    {HotkeyAction(VK_F1, MOD_WIN, "actA", "first"),
     HotkeyAction(VK_F1, BitOr(MOD_WIN, MOD_CTRL), "actB", "second")}

\* KeyboardHook hook; the constructor throws std::runtime_error or leaves a
\* new object behind.
Hook_New(h) ==
    LET c == KeyboardHook_Constructor(s_instance, h)
    IN  /\ h \notin LiveHooks
        /\ \A t \in Threads : pc[t] = Idle
        /\ IF c.threw
           THEN /\ last' = [op |-> "KeyboardHook", hook |-> h, ret |-> "throws"]
                /\ UNCHANGED <<s_instance, hooks>>
           ELSE /\ s_instance' = c.s_instance
                /\ hooks' = (h :> NewKeyboardHook) @@ hooks
                /\ last' = [op |-> "KeyboardHook", hook |-> h, ret |-> "void"]
        /\ UNCHANGED <<osHooks, alive, m_hook, m_isRunning, m_registeredHotkeys,
                       m_mutex, pc>>

\* The hook objects a caller owns itself (not those inside a manager).
OwnHooks == LiveHooks \cap HookObjects

\* The object goes out of scope: ~KeyboardHook().
Hook_Delete(h, honoured) ==
    LET d == KeyboardHook_Destructor(hooks[h], s_instance, honoured)
    IN  /\ h \in OwnHooks
        /\ \A t \in Threads : pc[t] = Idle
        /\ UnhookAnswer(honoured)
        /\ s_instance' = d.s_instance
        /\ hooks' = [k \in DOMAIN hooks \ {h} |-> hooks[k]]
        /\ osHooks' = osHooks - d.removed
        /\ last' = [op |-> "~KeyboardHook", hook |-> h, os |-> d.os, ret |-> "void"]
        /\ UNCHANGED <<alive, m_hook, m_isRunning, m_registeredHotkeys, m_mutex, pc>>

Hook_Install(h, granted) ==
    LET i == KeyboardHook_Install(hooks[h], granted)
    IN  /\ h \in OwnHooks
        /\ \A t \in Threads : pc[t] = Idle
        /\ hooks' = [hooks EXCEPT ![h] = i.hook]
        /\ osHooks' = osHooks + i.added
        /\ last' = [op |-> "Install", hook |-> h,
                    os |-> IF IsInstalled(hooks[h]) THEN "not asked"
                           ELSE IF granted THEN "granted" ELSE "declined",
                    ret |-> IF i.ret THEN "true" ELSE "false"]
        /\ UNCHANGED <<s_instance, alive, m_hook, m_isRunning, m_registeredHotkeys,
                       m_mutex, pc>>

Hook_Uninstall(h, honoured) ==
    LET u == KeyboardHook_Uninstall(hooks[h], honoured)
    IN  /\ h \in OwnHooks
        /\ \A t \in Threads : pc[t] = Idle
        /\ UnhookAnswer(honoured)
        /\ hooks' = [hooks EXCEPT ![h] = u.hook]
        /\ osHooks' = osHooks - u.removed
        /\ last' = [op |-> "Uninstall", hook |-> h, os |-> u.os,
                    ret |-> IF u.ret THEN "true" ELSE "false"]
        /\ UNCHANGED <<s_instance, alive, m_hook, m_isRunning, m_registeredHotkeys,
                       m_mutex, pc>>

Hook_IsInstalled(h) ==
    /\ h \in OwnHooks
    /\ \A t \in Threads : pc[t] = Idle
    /\ last' = [op |-> "IsInstalled", hook |-> h,
                ret |-> IF IsInstalled(hooks[h]) THEN "true" ELSE "false"]
    /\ UNCHANGED <<s_instance, hooks, osHooks, alive, m_hook, m_isRunning,
                   m_registeredHotkeys, m_mutex, pc>>

Hook_RegisterHotkey(h, vkCode, modifiers, callback) ==
    /\ h \in OwnHooks
    /\ \A t \in Threads : pc[t] = Idle
    /\ hooks' = [hooks EXCEPT ![h] =
           KeyboardHook_RegisterHotkey(@, vkCode, modifiers, callback)]
    /\ last' = [op |-> "KeyboardHook::RegisterHotkey", hook |-> h,
                arg |-> [vkCode |-> vkCode, modifiers |-> modifiers,
                         callback |-> callback],
                ret |-> "void"]
    /\ UNCHANGED <<s_instance, osHooks, alive, m_hook, m_isRunning,
                   m_registeredHotkeys, m_mutex, pc>>

Hook_UnregisterHotkey(h, vkCode, modifiers) ==
    /\ h \in OwnHooks
    /\ \A t \in Threads : pc[t] = Idle
    /\ hooks' = [hooks EXCEPT ![h] = KeyboardHook_UnregisterHotkey(@, vkCode, modifiers)]
    /\ last' = [op |-> "KeyboardHook::UnregisterHotkey", hook |-> h,
                arg |-> [vkCode |-> vkCode, modifiers |-> modifiers],
                ret |-> "void"]
    /\ UNCHANGED <<s_instance, osHooks, alive, m_hook, m_isRunning,
                   m_registeredHotkeys, m_mutex, pc>>

Hook_ClearAllHotkeys(h) ==
    /\ h \in OwnHooks
    /\ \A t \in Threads : pc[t] = Idle
    /\ hooks' = [hooks EXCEPT ![h] = KeyboardHook_ClearAllHotkeys(@)]
    /\ last' = [op |-> "KeyboardHook::ClearAllHotkeys", hook |-> h, ret |-> "void"]
    /\ UNCHANGED <<s_instance, osHooks, alive, m_hook, m_isRunning,
                   m_registeredHotkeys, m_mutex, pc>>

NextHook ==
    \/ \E h \in HookObjects : Hook_New(h)
    \/ \E h \in HookObjects, honoured \in BOOLEAN : Hook_Delete(h, honoured)
    \/ \E h \in HookObjects, granted \in BOOLEAN : Hook_Install(h, granted)
    \/ \E h \in HookObjects, honoured \in BOOLEAN : Hook_Uninstall(h, honoured)
    \/ \E h \in HookObjects : Hook_IsInstalled(h)
    \/ \E h \in HookObjects, k \in HookKeys, m \in HookMods, cb \in HookCallbacks :
           Hook_RegisterHotkey(h, k, m, cb)
    \/ \E h \in HookObjects, k \in HookKeys, m \in HookMods :
           Hook_UnregisterHotkey(h, k, m)
    \/ \E h \in HookObjects : Hook_ClearAllHotkeys(h)
    \/ \E r \in HookManagers, granted \in BOOLEAN : HotkeyManager_Start(r, granted)
    \/ \E r \in HookManagers, honoured \in BOOLEAN : HotkeyManager_Stop(r, honoured)
    \/ \E r \in HookManagers, a \in HookActionInputs : HotkeyManager_RegisterHotkey(r, a)
    \/ \E r \in HookManagers, honoured \in BOOLEAN :
           HotkeyManager_Destructor(r, honoured)
    \/ \E r \in HookManagers : HotkeyManager_Constructor(r)
    \/ \E w \in FewMessages, k \in HookEventKeys, b \in Behaviours :
           LowLevelKeyboardProc(HC_ACTION, w, k, b)

SpecHook == Init /\ [][NextHook]_vars

\* --------------------------------------- Start and Stop, statement by statement
\* Two threads call Start and Stop; a thread holds the manager's m_mutex from
\* the lock_guard to the return (or the throw), and the statements of
\* different threads interleave. s_instance is read and written with no lock
\* of its own.
At(t, where) == pc[t].at = where
Goto(t, where) == pc' = [pc EXCEPT ![t].at = where]
\* Where a thread is after its call returned: back in the callback that made
\* the call, at its end if it was started for the one call, or idle.
After(p, ret) ==
    IF "frame" \in DOMAIN p THEN p.frame
    ELSE IF "once" \in DOMAIN p
    THEN [at |-> "joined", manager |-> p.manager, arg |-> p.arg, ret |-> ret]
    ELSE Idle

\* Mutant: the lock is not released at the return.
Return_KeepsLock(t, op, ret) ==
    /\ pc' = [pc EXCEPT ![t] = After(pc[t], ret)]
    /\ UNCHANGED m_mutex
    /\ last' = [op |-> op, manager |-> pc[t].manager, ret |-> ret]

\* return: the lock_guard releases m_mutex.
Return(t, op, ret) ==
    /\ pc' = [pc EXCEPT ![t] = After(pc[t], ret)]
    /\ m_mutex' = [m_mutex EXCEPT ![pc[t].manager] = "free"]
    /\ last' = [op |-> op, manager |-> pc[t].manager, ret |-> ret]

\* std::lock_guard<std::mutex> lock(m_mutex) at the head of Start or Stop.
Thread_Lock(t, r, op) ==
    /\ pc[t] = Idle
    /\ alive[r]
    /\ m_mutex[r] = "free"
    /\ m_mutex' = [m_mutex EXCEPT ![r] = t]
    /\ pc' = [pc EXCEPT ![t] = [at |-> op, manager |-> r]]
    /\ UNCHANGED <<s_instance, hooks, osHooks, alive, m_hook, m_isRunning,
                   m_registeredHotkeys, last>>

\* if (m_isRunning) return true;
Thread_StartCheck(t) ==
    /\ At(t, "Start")
    /\ IF Start_AlreadyRunning(pc[t].manager)
       THEN Return(t, "Start", "true")
       ELSE Goto(t, "KeyboardHook") /\ UNCHANGED <<m_mutex, last>>
    /\ UNCHANGED <<s_instance, hooks, osHooks, alive, m_hook, m_isRunning,
                   m_registeredHotkeys>>

\* The constructor's test of s_instance; the throw unwinds Start.
Thread_ConstructorCheck(t) ==
    /\ At(t, "KeyboardHook")
    /\ IF KeyboardHook_Constructor(s_instance, pc[t].manager).threw
       THEN Return(t, "Start", "throws")
       ELSE Goto(t, "s_instance = this") /\ UNCHANGED <<m_mutex, last>>
    /\ UNCHANGED <<s_instance, hooks, osHooks, alive, m_hook, m_isRunning,
                   m_registeredHotkeys>>

\* s_instance = this; make_unique returns and m_hook owns the new object.
Thread_ConstructorAssign(t) ==
    LET r == pc[t].manager
    IN  /\ At(t, "s_instance = this")
        /\ s_instance' = KeyboardHook_Constructor(nullptr, r).s_instance
        /\ hooks' = (r :> NewKeyboardHook) @@ hooks
        /\ m_hook' = [m_hook EXCEPT ![r] = r]
        /\ Goto(t, "Install")
        /\ UNCHANGED <<osHooks, alive, m_isRunning, m_registeredHotkeys, m_mutex, last>>

\* if (!m_hook->Install()) { m_hook.reset(); return false; } m_isRunning = true;
Thread_Install(t, granted) ==
    LET r == pc[t].manager
        i == KeyboardHook_Install(hooks[r], granted)
    IN  /\ At(t, "Install")
        /\ IF i.ret
           THEN /\ hooks' = [hooks EXCEPT ![r] = i.hook]
                /\ osHooks' = osHooks + i.added
                /\ m_isRunning' = [m_isRunning EXCEPT ![r] = TRUE]
                /\ Return(t, "Start", "true")
                /\ UNCHANGED <<s_instance, m_hook>>
           ELSE /\ ResetHook(r, TRUE)
                /\ Return(t, "Start", "false")
                /\ UNCHANGED m_isRunning
        /\ UNCHANGED <<alive, m_registeredHotkeys>>

\* The body of Stop, under the lock.
Thread_StopBody(t, honoured) ==
    LET r == pc[t].manager
    IN  /\ At(t, "Stop")
        /\ UnhookAnswer(honoured)
        /\ Stop_Body(r, honoured)
        /\ Return(t, "Stop", "void")
        /\ UNCHANGED alive

NextRace ==
    \/ \E t \in Threads, r \in Managers, op \in {"Start", "Stop"} : Thread_Lock(t, r, op)
    \/ \E t \in Threads : Thread_StartCheck(t)
    \/ \E t \in Threads : Thread_ConstructorCheck(t)
    \/ \E t \in Threads : Thread_ConstructorAssign(t)
    \/ \E t \in Threads, granted \in BOOLEAN : Thread_Install(t, granted)
    \/ \E t \in Threads, honoured \in BOOLEAN : Thread_StopBody(t, honoured)

SpecRace == Init /\ [][NextRace]_vars

\* ------------------------------------- calls that wait for the lock, in steps
\* A call starts by waiting for m_mutex of its manager; the thread goes on
\* when it holds the lock.
Thread_Call(t, r, op, arg) ==
    /\ pc[t] = Idle
    /\ alive[r]
    /\ pc' = [pc EXCEPT ![t] =
                 [at |-> "lock_guard", manager |-> r, op |-> op, arg |-> arg]]
    /\ UNCHANGED <<s_instance, hooks, osHooks, alive, m_hook, m_isRunning,
                   m_registeredHotkeys, m_mutex, last>>

\* std::thread whose body is one RegisterHotkey call; join() ends it.
Thread_Spawn(t, r, hotkeyAction) ==
    /\ pc[t] = Idle
    /\ alive[r]
    /\ pc' = [pc EXCEPT ![t] =
                 [at |-> "lock_guard", manager |-> r, op |-> "RegisterHotkey",
                  arg |-> hotkeyAction, once |-> TRUE]]
    /\ UNCHANGED <<s_instance, hooks, osHooks, alive, m_hook, m_isRunning,
                   m_registeredHotkeys, m_mutex, last>>

\* Mutant: the method runs without the lock_guard.
Thread_Acquire_NoLock(t) ==
    /\ At(t, "lock_guard")
    /\ Goto(t, pc[t].op)
    /\ UNCHANGED <<s_instance, hooks, osHooks, alive, m_hook, m_isRunning,
                   m_registeredHotkeys, m_mutex, last>>

\* std::lock_guard<std::mutex> lock(m_mutex): the thread gets the mutex when
\* no thread holds it.
Thread_Acquire(t) ==
    /\ At(t, "lock_guard")
    /\ m_mutex[pc[t].manager] = "free"
    /\ m_mutex' = [m_mutex EXCEPT ![pc[t].manager] = t]
    /\ Goto(t, pc[t].op)
    /\ UNCHANGED <<s_instance, hooks, osHooks, alive, m_hook, m_isRunning,
                   m_registeredHotkeys, last>>

\* The three checks of RegisterHotkey.
Thread_RegisterCheck(t) ==
    /\ At(t, "RegisterHotkey")
    /\ IF RegisterHotkey_Accepts(pc[t].manager, pc[t].arg)
       THEN Goto(t, "m_hook->RegisterHotkey") /\ UNCHANGED <<m_mutex, last>>
       ELSE Return(t, "RegisterHotkey", "false")
    /\ UNCHANGED <<s_instance, hooks, osHooks, alive, m_hook, m_isRunning,
                   m_registeredHotkeys>>

\* m_hook->RegisterHotkey(vkCode, modifiers, lambda);
Thread_RegisterHook(t) ==
    LET r == pc[t].manager
        a == pc[t].arg
    IN  /\ At(t, "m_hook->RegisterHotkey")
        /\ hooks' = [hooks EXCEPT ![m_hook[r]] =
               KeyboardHook_RegisterHotkey(@, a.vkCode, a.modifiers,
                                           ForwardingCallback(a.action))]
        /\ Goto(t, "m_registeredHotkeys[key]")
        /\ UNCHANGED <<s_instance, osHooks, alive, m_hook, m_isRunning,
                       m_registeredHotkeys, m_mutex, last>>

\* m_registeredHotkeys[key] = hotkeyAction; return true;
Thread_RegisterStore(t) ==
    LET r == pc[t].manager
        a == pc[t].arg
    IN  /\ At(t, "m_registeredHotkeys[key]")
        /\ m_registeredHotkeys' = [m_registeredHotkeys EXCEPT ![r] =
               (MakeHotkeyKey(a.vkCode, a.modifiers) :> a) @@ @]
        /\ Return(t, "RegisterHotkey", "true")
        /\ UNCHANGED <<s_instance, hooks, osHooks, alive, m_hook, m_isRunning>>

\* SpecRegister: a manager is started, then every thread runs one
\* RegisterHotkey call and ends.
RegisterManagers == {"A"}
SpawnInputs ==
    {HotkeyAction(VK_F1, MOD_WIN, "actA", "first"),
     HotkeyAction(VK_F1, MOD_WIN, "actB", "second"),
     HotkeyAction(VK_N, MOD_WIN, "actA", "first"),
     HotkeyAction(VK_N, MOD_WIN, nullptr, "first")}

NextRegister ==
    \/ \E r \in RegisterManagers, granted \in BOOLEAN : HotkeyManager_Start(r, granted)
    \/ \E t \in Threads, r \in RegisterManagers, a \in SpawnInputs : Thread_Spawn(t, r, a)
    \/ \E t \in Threads : Thread_Acquire(t)
    \/ \E t \in Threads : Thread_RegisterCheck(t)
    \/ \E t \in Threads : Thread_RegisterHook(t)
    \/ \E t \in Threads : Thread_RegisterStore(t)

SpecRegister == Init /\ [][NextRegister]_vars

\* --------------------------- every method in steps, next to the hook procedure
\* UnregisterHotkey: the checks.
Thread_UnregisterCheck(t) ==
    LET r == pc[t].manager
        key == MakeHotkeyKey(pc[t].arg.vkCode, pc[t].arg.modifiers)
    IN  /\ At(t, "UnregisterHotkey")
        /\ IF \/ ~m_isRunning[r] \/ m_hook[r] = nullptr
              \/ key \notin DOMAIN m_registeredHotkeys[r]
           THEN Return(t, "UnregisterHotkey", "false")
           ELSE Goto(t, "m_hook->UnregisterHotkey") /\ UNCHANGED <<m_mutex, last>>
        /\ UNCHANGED <<s_instance, hooks, osHooks, alive, m_hook, m_isRunning,
                       m_registeredHotkeys>>

\* UnregisterHotkey: the two erasures and return true.
Thread_UnregisterErase(t) ==
    /\ At(t, "m_hook->UnregisterHotkey")
    /\ UnregisterHotkey_Erase(pc[t].manager, pc[t].arg.vkCode, pc[t].arg.modifiers)
    /\ Return(t, "UnregisterHotkey", "true")
    /\ UNCHANGED <<s_instance, osHooks, alive, m_hook, m_isRunning>>

Thread_ClearAllBody(t) ==
    /\ At(t, "ClearAllHotkeys")
    /\ ClearAllHotkeys_Body(pc[t].manager)
    /\ Return(t, "ClearAllHotkeys", "void")
    /\ UNCHANGED <<s_instance, osHooks, alive, m_hook, m_isRunning>>

\* The const methods read under the lock and return; last keeps the text of
\* a returned number or list.
ConstMethods == {"IsRunning", "IsHotkeyConflict", "GetRegisteredHotkeys", "GetHotkeyCount"}
Thread_ConstBody(t) ==
    LET r == pc[t].manager
        key == MakeHotkeyKey(pc[t].arg.vkCode, pc[t].arg.modifiers)
    IN  /\ pc[t].at \in ConstMethods
        /\ \/ /\ At(t, "IsRunning")
              /\ Return(t, "IsRunning", IF m_isRunning[r] THEN "true" ELSE "false")
           \/ /\ At(t, "IsHotkeyConflict")
              /\ Return(t, "IsHotkeyConflict",
                        IF key \in DOMAIN m_registeredHotkeys[r] THEN "true" ELSE "false")
           \/ /\ At(t, "GetRegisteredHotkeys")
              /\ \E s \in Orderings(DOMAIN m_registeredHotkeys[r]) :
                     Return(t, "GetRegisteredHotkeys",
                            ToString([i \in DOMAIN s |-> m_registeredHotkeys[r][s[i]]]))
           \/ /\ At(t, "GetHotkeyCount")
              /\ Return(t, "GetHotkeyCount", ToString(GetHotkeyCount(r)))
        /\ UNCHANGED <<s_instance, hooks, osHooks, alive, m_hook, m_isRunning,
                       m_registeredHotkeys>>

\* The OS calls the hook procedure on the thread that pumps the messages of
\* the process, while that thread is in no other call.
HookThread == "t1"
OtherThreads == Threads \ {HookThread}

\* Undefined behaviour that ends the process ends every thread.
Terminated == [at |-> "terminated", manager |-> "none"]
Crash ==
    /\ pc' = [t \in Threads |-> Terminated]
    /\ UNCHANGED <<s_instance, hooks, osHooks, alive, m_hook, m_isRunning,
                   m_registeredHotkeys, m_mutex, last>>
UndefinedBehaviour == {"goes on", "crashes"}

\* LowLevelKeyboardProc and HandleKeyboardMessage up to the find in the
\* table: the modifier flags are updated and the iterator is taken.
Handler_Enter(nCode, wParam, vkCode) ==
    /\ osHooks > 0
    /\ pc[HookThread] = Idle
    /\ IF s_instance # nullptr
       THEN LET res == HandleKeyboardMessage(hooks[s_instance], nCode, wParam,
                                             vkCode, "returns")
            IN  /\ hooks' = [hooks EXCEPT ![s_instance] = res.hook]
                /\ pc' = [pc EXCEPT ![HookThread] =
                       [at |-> IF res.invoked # <<>> THEN "it->second"
                               ELSE "CallNextHookEx",
                        manager |-> "none", instance |-> s_instance,
                        seen |-> res.hook.m_hotkeyCallbacks]]
       ELSE /\ pc' = [pc EXCEPT ![HookThread] =
                       [at |-> "CallNextHookEx", manager |-> "none",
                        instance |-> nullptr, seen |-> NoCallbacks]]
            /\ UNCHANGED hooks
    /\ UNCHANGED <<s_instance, osHooks, alive, m_hook, m_isRunning,
                   m_registeredHotkeys, m_mutex, last>>

\* The table the iterator points into is as it was at the find.
IteratorValid ==
    /\ pc[HookThread].instance \in LiveHooks
    /\ hooks[pc[HookThread].instance].m_hotkeyCallbacks = pc[HookThread].seen

\* it->second(vkCode, currentModifiers) with an action that calls no manager:
\* it returns, or throws into the catch. An iterator that is no longer valid
\* is undefined behaviour.
Handler_Callback(ub) ==
    /\ At(HookThread, "it->second")
    /\ IF ~IteratorValid /\ ub = "crashes"
       THEN Crash
       ELSE /\ Goto(HookThread, "CallNextHookEx")
            /\ UNCHANGED <<s_instance, hooks, osHooks, alive, m_hook, m_isRunning,
                           m_registeredHotkeys, m_mutex, last>>

\* The action calls a method of a manager from inside the callback.
Handler_CallbackCalls(r, op, arg) ==
    /\ At(HookThread, "it->second")
    /\ alive[r]
    /\ pc' = [pc EXCEPT ![HookThread] =
                 [at |-> "lock_guard", manager |-> r, op |-> op, arg |-> arg,
                  frame |-> [pc[HookThread] EXCEPT !.at = "action returns"]]]
    /\ UNCHANGED <<s_instance, hooks, osHooks, alive, m_hook, m_isRunning,
                   m_registeredHotkeys, m_mutex, last>>

\* The action returns after its call of the manager.
Handler_ActionReturns ==
    /\ At(HookThread, "action returns")
    /\ Goto(HookThread, "CallNextHookEx")
    /\ UNCHANGED <<s_instance, hooks, osHooks, alive, m_hook, m_isRunning,
                   m_registeredHotkeys, m_mutex, last>>

\* return CallNextHookEx(m_hookHandle, ...): reads a member of the object,
\* which is undefined behaviour once the object is destroyed.
Handler_Forward(ub) ==
    /\ At(HookThread, "CallNextHookEx")
    /\ IF /\ pc[HookThread].instance # nullptr
          /\ pc[HookThread].instance \notin LiveHooks
          /\ ub = "crashes"
       THEN Crash
       ELSE /\ pc' = [pc EXCEPT ![HookThread] = Idle]
            /\ UNCHANGED <<s_instance, hooks, osHooks, alive, m_hook, m_isRunning,
                           m_registeredHotkeys, m_mutex, last>>

\* SpecCalls: the hook thread starts and stops the managers; both threads
\* call the other methods of manager A, the hook thread also from inside a
\* callback; key events arrive in between.
NoArg == HotkeyAction(0, MOD_NONE, nullptr, "")
CallManagers == {"A"}
CallActionInputs == {HotkeyAction(VK_F1, MOD_WIN, "actA", "first")}
CallEventKeys == {VK_LWIN, VK_F1}
Call(r, op, arg) == [manager |-> r, op |-> op, arg |-> arg]
Calls ==
    {Call(r, op, NoArg) :
        r \in CallManagers,
        op \in {"Stop", "ClearAllHotkeys", "IsRunning", "GetRegisteredHotkeys",
                "GetHotkeyCount"}}
    \cup {Call(r, op, a) :
            r \in CallManagers, op \in {"RegisterHotkey"}, a \in CallActionInputs}
    \cup {Call(r, op, HotkeyAction(a.vkCode, a.modifiers, nullptr, "")) :
            r \in CallManagers, op \in {"UnregisterHotkey", "IsHotkeyConflict"},
            a \in CallActionInputs}
HookThreadCalls ==
    {Call(r, "Start", NoArg) : r \in Managers}
    \cup {Call(r, "Stop", NoArg) : r \in Managers \ CallManagers}

\* The steps of thread t inside a method, once it holds the lock.
Thread_Steps(t) ==
    \/ Thread_StartCheck(t)
    \/ Thread_ConstructorCheck(t)
    \/ Thread_ConstructorAssign(t)
    \/ \E granted \in BOOLEAN : Thread_Install(t, granted)
    \/ \E honoured \in BOOLEAN : Thread_StopBody(t, honoured)
    \/ Thread_RegisterCheck(t)
    \/ Thread_RegisterHook(t)
    \/ Thread_RegisterStore(t)
    \/ Thread_UnregisterCheck(t)
    \/ Thread_UnregisterErase(t)
    \/ Thread_ClearAllBody(t)
    \/ Thread_ConstBody(t)

NextCalls ==
    \/ \E c \in HookThreadCalls : Thread_Call(HookThread, c.manager, c.op, c.arg)
    \/ \E t \in Threads, c \in Calls : Thread_Call(t, c.manager, c.op, c.arg)
    \/ \E t \in Threads : Thread_Acquire(t)
    \/ \E t \in Threads : Thread_Steps(t)
    \/ \E k \in CallEventKeys : Handler_Enter(HC_ACTION, "WM_KEYDOWN", k)
    \/ \E ub \in UndefinedBehaviour : Handler_Callback(ub)
    \/ \E c \in Calls : Handler_CallbackCalls(c.manager, c.op, c.arg)
    \/ Handler_ActionReturns
    \/ \E ub \in UndefinedBehaviour : Handler_Forward(ub)

\* Fair scheduling: a thread inside a method takes its next step, and a
\* thread that waits for a mutex that becomes free again and again gets it.
SpecCalls ==
    /\ Init /\ [][NextCalls]_vars
    /\ \A t \in Threads : WF_vars(Thread_Steps(t)) /\ SF_vars(Thread_Acquire(t))

\* ------------------------------------------------ the combination identity
\* SpecIdentity applies the three identity functions to one pair of DWORDs:
\* every key code up to MaxKeyCode with every mask up to MaxModifierMask, and
\* a few pairs of large values.
MaxKeyCode == 255
MaxModifierMask == 15
LargeDwords == {0, 1, 256, 65535, 65536, 2147483647}
IdentityInputs ==
    ((0..MaxKeyCode) \X (0..MaxModifierMask)) \cup (LargeDwords \X LargeDwords)

InitIdentity ==
    /\ s_instance = nullptr
    /\ hooks = NoHooks
    /\ osHooks = 0
    /\ alive = [r \in Managers |-> TRUE]
    /\ m_hook = [r \in Managers |-> nullptr]
    /\ m_isRunning = [r \in Managers |-> FALSE]
    /\ m_registeredHotkeys = [r \in Managers |-> NoHotkeys]
    /\ m_mutex = [r \in Managers |-> "free"]
    /\ pc = [t \in Threads |-> Idle]
    /\ \E p \in IdentityInputs :
          last = [op |-> "input", arg |-> [vkCode |-> p[1], modifiers |-> p[2]]]

\* The three functions applied to the pair.
Identity_Apply ==
    /\ last.op = "input"
    /\ last' = [op |-> "identity", arg |-> last.arg,
                keyboardHook |-> MakeHotkeyKey(last.arg.vkCode, last.arg.modifiers),
                hotkeyManager |-> HotkeyManager_MakeHotkeyKey(last.arg.vkCode,
                                                              last.arg.modifiers),
                hotkeyConfig |-> HotkeyConfig_GetUniqueId(
                                     HotkeyConfig(last.arg.vkCode, last.arg.modifiers,
                                                  "actA", "first"))]
    /\ UNCHANGED <<s_instance, hooks, osHooks, alive, m_hook, m_isRunning,
                   m_registeredHotkeys, m_mutex, pc>>

NextIdentity == Identity_Apply

SpecIdentity == InitIdentity /\ [][NextIdentity]_vars

\* ------------------------------------------ bindings of modifier key codes
\* SpecModKeys drives one manager with actions whose key code is itself a
\* modifier key, and delivers every event of the modifier keys and of F1.
ModKeyManagers == {"A"}
ModKeyActionInputs ==
    {HotkeyAction(VK_LWIN, MOD_WIN, "actA", "first"),
     HotkeyAction(VK_CONTROL, MOD_CTRL, "actB", "second"),
     HotkeyAction(VK_RSHIFT, BitOr(MOD_WIN, MOD_SHIFT), "actA", "first"),
     HotkeyAction(VK_LMENU, MOD_NONE, "actB", "second")}
ModKeyEventKeys == ModifierKeys \cup {VK_F1}

NextModKeys ==
    \/ \E r \in ModKeyManagers, granted \in BOOLEAN : HotkeyManager_Start(r, granted)
    \/ \E r \in ModKeyManagers, honoured \in BOOLEAN : HotkeyManager_Stop(r, honoured)
    \/ \E r \in ModKeyManagers, a \in ModKeyActionInputs :
           HotkeyManager_RegisterHotkey(r, a)
    \/ \E w \in KeyMessages, k \in ModKeyEventKeys, b \in Behaviours :
           LowLevelKeyboardProc(HC_ACTION, w, k, b)

SpecModKeys == Init /\ [][NextModKeys]_vars

\* ================================================================== claims
HandlerOp == "LowLevelKeyboardProc"
LastKey == MakeHotkeyKey(last.arg.vkCode, last.arg.modifiers)

\* C1: while the manager is Running, RegisterHotkey of an action whose
\* combination is already in the action table returns false and changes
\* nothing: the count, the stored action and the hook's binding stay, and
\* the binding still forwards to the action stored first.
C1_ConflictRejected ==
    [][\A r \in Managers :
          (/\ last'.op = "RegisterHotkey" /\ last'.manager = r
           /\ m_isRunning[r]
           /\ LastKey' \in DOMAIN m_registeredHotkeys[r])
          => /\ last'.ret = "false"
             /\ m_registeredHotkeys' = m_registeredHotkeys
             /\ hooks' = hooks
             /\ GetHotkeyCount(r)' = GetHotkeyCount(r)
             /\ hooks'[m_hook'[r]].m_hotkeyCallbacks[LastKey'] =
                    ForwardingCallback(m_registeredHotkeys[r][LastKey'].action)]_vars

\* A second action with another callback and description was refused for the
\* combination that holds the first; the count is 1.
C1_Witness ==
    \E r \in Managers :
        /\ last.op = "RegisterHotkey" /\ last.manager = r /\ last.ret = "false"
        /\ m_isRunning[r]
        /\ last.arg.action # nullptr
        /\ LastKey \in DOMAIN m_registeredHotkeys[r]
        /\ m_registeredHotkeys[r][LastKey].action # last.arg.action
        /\ m_registeredHotkeys[r][LastKey].description # last.arg.description
        /\ GetHotkeyCount(r) = 1

\* C2: at most one KeyboardHook object exists in the process at any time,
\* also when two threads run Start on two managers at the same time.
C2_AtMostOneAdapter == Cardinality(LiveHooks) <= 1

\* C3: every call of the hook procedure forwards the event to the next hook
\* exactly once, whatever the event and the callback did, and also when no
\* KeyboardHook instance exists.
C3_ForwardedExactlyOnce == last.op = HandlerOp => last.forwards = 1

\* The hook procedure ran while the singleton slot was empty.
C3_Witness == last.op = HandlerOp /\ last.instance = nullptr /\ last.forwards = 1

\* The modifier mask of the flags of a hook, flag by flag.
HeldModifierMask(h) ==
    (IF h.m_winKeyDown THEN MOD_WIN ELSE 0) + (IF h.m_ctrlKeyDown THEN MOD_CTRL ELSE 0)
    + (IF h.m_shiftKeyDown THEN MOD_SHIFT ELSE 0) + (IF h.m_altKeyDown THEN MOD_ALT ELSE 0)

\* The last event was a press of a key that is no modifier key, and the
\* table of the instance holds a binding for the key with the mask held.
LastEventMatches ==
    /\ last.op = HandlerOp /\ last.instance # nullptr /\ last.nCode = HC_ACTION
    /\ last.wParam \in {"WM_KEYDOWN", "WM_SYSKEYDOWN"}
    /\ last.vkCode \notin ModifierKeys
    /\ MakeHotkeyKey(last.vkCode, HeldModifierMask(hooks[last.instance]))
           \in DOMAIN hooks[last.instance].m_hotkeyCallbacks

\* C4: for an actionable key event the handler calls a callback exactly when
\* the event is a press, the key is none of the 11 modifier keys and the
\* table holds a binding for (key, mask after the state update); it calls
\* that binding only, with (key, mask).
C4_DispatchExactMatch ==
    (last.op = HandlerOp /\ last.instance # nullptr /\ last.nCode = HC_ACTION)
    => LET h == hooks[last.instance]
           mask == HeldModifierMask(h)
       IN  IF LastEventMatches
           THEN last.invoked =
                    <<[callback |-> h.m_hotkeyCallbacks[MakeHotkeyKey(last.vkCode, mask)],
                       vkCode |-> last.vkCode, modifiers |-> mask]>>
           ELSE last.invoked = <<>>

\* A callback was called while the table also holds a binding for the same
\* key with another mask.
C4_Witness ==
    /\ last.op = HandlerOp /\ last.instance # nullptr
    /\ Len(last.invoked) = 1
    /\ \E k \in DOMAIN hooks[last.instance].m_hotkeyCallbacks :
           k.lo = last.vkCode /\ k.hi # last.invoked[1].modifiers

\* C5: a failure raised by a callback is caught in the handler: the event is
\* still forwarded, the hook is left as a normal return leaves it, and the
\* next matching press calls its callback.
C5_CallbackFailureContained ==
    [][/\ (last'.op = HandlerOp /\ last'.outcome \in {"caught", "escaped"})
          => /\ last'.outcome = "caught"
             /\ last'.forwards = 1
             /\ s_instance' = s_instance
             /\ hooks' = [hooks EXCEPT ![s_instance] =
                    HandleKeyboardMessage(@, last'.nCode, last'.wParam,
                                          last'.vkCode, "returns").hook]
             /\ hooks'[s_instance].m_hotkeyCallbacks = hooks[s_instance].m_hotkeyCallbacks
       /\ (last.op = HandlerOp /\ last.outcome = "caught" /\ LastEventMatches')
          => Len(last'.invoked) = 1]_vars

\* A callback raised a failure and the event was forwarded.
C5_Witness ==
    /\ last.op = HandlerOp /\ last.outcome = "caught" /\ last.forwards = 1
    /\ Len(last.invoked) = 1

\* C6: RegisterHotkey returns false and touches neither table when the
\* manager is not Running or the action is empty; it does not throw.
C6_RejectsStoppedOrNull ==
    [][\A r \in Managers :
          (/\ last'.op = "RegisterHotkey" /\ last'.manager = r
           /\ (~m_isRunning[r] \/ last'.arg.action = nullptr))
          => /\ last'.ret = "false"
             /\ m_registeredHotkeys' = m_registeredHotkeys
             /\ hooks' = hooks]_vars

\* An empty action was refused by a Running manager for a free combination.
C6_Witness ==
    \E r \in Managers :
        /\ last.op = "RegisterHotkey" /\ last.manager = r /\ last.ret = "false"
        /\ last.arg.action = nullptr
        /\ m_isRunning[r]
        /\ LastKey \notin DOMAIN m_registeredHotkeys[r]

\* C7: Start on a Running manager returns true and changes nothing: no second
\* hook object, the hook stays installed, one live hook, the same actions.
C7_StartWhenRunning ==
    [][\A r \in Managers :
          (last'.op = "Start" /\ last'.manager = r /\ m_isRunning[r])
          => /\ last'.ret = "true"
             /\ UNCHANGED <<s_instance, hooks, osHooks, alive, m_hook, m_isRunning,
                            m_registeredHotkeys>>
             /\ Cardinality(LiveHooks') = 1
             /\ IsInstalled(hooks'[m_hook'[r]])]_vars

\* Start returned true without asking the OS, on a manager that holds actions.
C7_Witness ==
    \E r \in Managers :
        /\ last.op = "Start" /\ last.manager = r /\ last.ret = "true"
        /\ last.os = "not asked"
        /\ m_isRunning[r] /\ GetHotkeyCount(r) > 0

\* C8: when the OS declines the hook, Start on a Stopped manager returns
\* false, the manager stays Stopped with no hook object, the singleton slot
\* is empty again, and a Start right after it that the OS grants succeeds.
C8_StartInstallFailure ==
    [][/\ \A r \in Managers :
             (last'.op = "Start" /\ last'.manager = r /\ last'.os = "declined")
             => /\ ~m_isRunning[r]
                /\ last'.ret = "false"
                /\ ~m_isRunning'[r]
                /\ m_hook'[r] = nullptr
                /\ LiveHooks' = {}
                /\ s_instance' = nullptr
                /\ osHooks' = osHooks
       /\ (/\ last.op = "Start" /\ last.os = "declined"
           /\ last'.op = "Start" /\ last'.manager = last.manager
           /\ last'.os # "declined")
          => /\ last'.os = "granted" /\ last'.ret = "true"
             /\ m_isRunning'[last.manager]
             /\ s_instance' = m_hook'[last.manager]]_vars

\* Start returned false because the OS declined.
C8_Witness ==
    \E r \in Managers :
        /\ last.op = "Start" /\ last.manager = r /\ last.os = "declined"
        /\ last.ret = "false" /\ ~m_isRunning[r] /\ s_instance = nullptr

\* C9: Stop on a Running manager leaves it Stopped with no action and no hook
\* object: the hook is destroyed, the OS is asked to unhook, and the
\* singleton slot is empty.
C9_StopWhenRunning ==
    [][\A r \in Managers :
          (last'.op = "Stop" /\ last'.manager = r /\ m_isRunning[r])
          => /\ ~IsRunning(r)'
             /\ GetHotkeyCount(r)' = 0
             /\ m_hook'[r] = nullptr
             /\ m_hook[r] \notin LiveHooks'
             /\ s_instance' = nullptr
             /\ last'.os \in {"honoured", "refused"}
             /\ (last'.os = "honoured" => osHooks' = osHooks - 1)
             /\ last'.ret = "void"]_vars

\* Stop destroyed the hook of a manager and the OS removed its hook.
C9_Witness ==
    \E r \in Managers :
        /\ last.op = "Stop" /\ last.manager = r /\ last.os = "honoured"
        /\ ~m_isRunning[r] /\ m_hook[r] = nullptr /\ osHooks = 0

\* C10: a Stopped manager holds no action, and Stop on a Stopped manager
\* returns and changes nothing.
C10_StoppedMeansEmpty ==
    /\ [](\A r \in Managers : ~IsRunning(r) => GetHotkeyCount(r) = 0)
    /\ [][\A r \in Managers :
             (last'.op = "Stop" /\ last'.manager = r /\ ~m_isRunning[r])
             => /\ last'.ret = "void"
                /\ UNCHANGED <<s_instance, hooks, osHooks, alive, m_hook, m_isRunning,
                               m_registeredHotkeys>>
                /\ GetHotkeyCount(r)' = 0]_vars

\* Stop returned on a manager that was Stopped; the other manager holds
\* actions.
C10_Witness ==
    \E r \in Managers :
        /\ last.op = "Stop" /\ last.manager = r /\ last.os = "not asked"
        /\ ~m_isRunning[r] /\ GetHotkeyCount(r) = 0
        /\ \E q \in Managers \ {r} : GetHotkeyCount(q) > 0

\* The manager calls that are neither Start, Stop nor the destructor.
OtherManagerOps ==
    {"RegisterHotkey", "UnregisterHotkey", "ClearAllHotkeys", "IsHotkeyConflict",
     "GetRegisteredHotkeys", "GetHotkeyCount", "IsRunning"}

\* C11: a manager is Stopped or Running and starts Stopped. It becomes
\* Running only by a Start that returns true and Stopped only by Stop or its
\* destructor; Stop and the destructor leave it Stopped, a Start that
\* returns true leaves it Running, and a Start that fails, RegisterHotkey,
\* UnregisterHotkey, ClearAllHotkeys and the four const methods leave
\* m_isRunning of every manager as it was.
C11_Lifecycle ==
    /\ \A r \in Managers : ~m_isRunning[r]
    /\ [](m_isRunning \in [Managers -> BOOLEAN])
    /\ [][\A r \in Managers :
             /\ (~m_isRunning[r] /\ m_isRunning'[r])
                => (last'.op = "Start" /\ last'.manager = r /\ last'.ret = "true")
             /\ (m_isRunning[r] /\ ~m_isRunning'[r])
                => (last'.op \in {"Stop", "~HotkeyManager"} /\ last'.manager = r)
             /\ (last'.op \in {"Stop", "~HotkeyManager"} /\ last'.manager = r)
                => ~m_isRunning'[r]
             /\ (last'.op = "Start" /\ last'.manager = r)
                => IF last'.ret = "true" THEN m_isRunning'[r]
                   ELSE ~m_isRunning[r] /\ ~m_isRunning'[r]
             /\ last'.op \in OtherManagerOps => m_isRunning' = m_isRunning]_vars

\* The destructor took a Running manager to Stopped.
C11_Witness ==
    \E r \in Managers :
        /\ last.op = "~HotkeyManager" /\ last.manager = r /\ last.os # "not asked"
        /\ ~m_isRunning[r] /\ ~alive[r]

\* C12: the construction of a KeyboardHook while another one is live, by a
\* caller itself or inside Start of a Stopped manager, throws, and nothing
\* else happens: the singleton slot still names the live object, and its
\* handle, its modifier flags and its table are as before.
C12_SecondConstructionFails ==
    [][(/\ LiveHooks # {}
        /\ \/ last'.op = "KeyboardHook"
           \/ (last'.op = "Start" /\ ~m_isRunning[last'.manager]))
       => /\ last'.ret = "throws"
          /\ s_instance' = s_instance
          /\ s_instance \in LiveHooks
          /\ hooks' = hooks
          /\ UNCHANGED <<osHooks, alive, m_hook, m_isRunning, m_registeredHotkeys>>]_vars

\* The construction of a second object threw while the first was installed,
\* held a binding and had a modifier flag set.
C12_Witness ==
    /\ last.op = "KeyboardHook" /\ last.ret = "throws"
    /\ s_instance \in HookObjects \ {last.hook}
    /\ IsInstalled(hooks[s_instance])
    /\ hooks[s_instance].m_winKeyDown
    /\ DOMAIN hooks[s_instance].m_hotkeyCallbacks # {}

\* C13: the destructor of a KeyboardHook, installed or not, asks the OS to
\* unhook if the object is installed, removes the object and empties the
\* singleton slot; the destructor of a HotkeyManager does what Stop does:
\* the manager ends Stopped with no action and no hook object, and if it was
\* Running its hook is destroyed in the same way. A construction right after
\* the destruction of a hook object succeeds.
C13_DestructionUninstalls ==
    [][/\ \A h \in HookObjects :
             (last'.op = "~KeyboardHook" /\ last'.hook = h)
             => /\ h \in LiveHooks /\ h \notin LiveHooks'
                /\ s_instance' = nullptr
                /\ IF IsInstalled(hooks[h])
                   THEN /\ last'.os \in {"honoured", "refused"}
                        /\ (last'.os = "honoured" => osHooks' = osHooks - 1)
                   ELSE last'.os = "not asked" /\ osHooks' = osHooks
       /\ (/\ \/ last.op = "~KeyboardHook"
              \/ (last.op = "~HotkeyManager" /\ last.os # "not asked")
           /\ last'.op = "KeyboardHook")
          => /\ last'.ret = "void"
             /\ s_instance' = last'.hook
             /\ LiveHooks' = {last'.hook}
       /\ \A r \in Managers :
             (last'.op = "~HotkeyManager" /\ last'.manager = r)
             => /\ ~m_isRunning'[r] /\ m_hook'[r] = nullptr
                /\ GetHotkeyCount(r)' = 0
                /\ IF m_isRunning[r]
                   THEN /\ m_hook[r] \in LiveHooks /\ m_hook[r] \notin LiveHooks'
                        /\ s_instance' = nullptr
                        /\ last'.os \in {"honoured", "refused"}
                        /\ (last'.os = "honoured" => osHooks' = osHooks - 1)
                   ELSE /\ last'.os = "not asked"
                        /\ UNCHANGED <<s_instance, hooks, osHooks>>]_vars

\* The destructor of an installed KeyboardHook ran, the OS removed its hook
\* and the slot is empty.
C13_Witness ==
    /\ last.op = "~KeyboardHook" /\ last.os = "honoured"
    /\ last.hook \notin LiveHooks
    /\ s_instance = nullptr /\ osHooks = 0

\* C14: whenever no KeyboardHook object is installed, the OS holds no
\* keyboard hook of the process.
C14_HandleReleased ==
    (\A k \in LiveHooks : ~IsInstalled(hooks[k])) => osHooks = 0

\* C18: UnregisterHotkey returns true exactly when the manager is Running
\* and the combination is in the action table; it then removes that entry,
\* and no other, from the action table and from the table of the hook, and
\* leaves the rest of the hook alone. Otherwise it returns false and both
\* tables stay as they were.
C18_UnregisterExact ==
    [][\A r \in Managers :
          (last'.op = "UnregisterHotkey" /\ last'.manager = r)
          => IF m_isRunning[r] /\ LastKey' \in DOMAIN m_registeredHotkeys[r]
             THEN /\ last'.ret = "true"
                  /\ DOMAIN m_registeredHotkeys'[r] =
                         DOMAIN m_registeredHotkeys[r] \ {LastKey'}
                  /\ \A k \in DOMAIN m_registeredHotkeys'[r] :
                         m_registeredHotkeys'[r][k] = m_registeredHotkeys[r][k]
                  /\ \A q \in Managers \ {r} :
                         m_registeredHotkeys'[q] = m_registeredHotkeys[q]
                  /\ m_hook[r] \in LiveHooks /\ LiveHooks' = LiveHooks
                  /\ DOMAIN hooks'[m_hook[r]].m_hotkeyCallbacks =
                         DOMAIN hooks[m_hook[r]].m_hotkeyCallbacks \ {LastKey'}
                  /\ \A k \in DOMAIN hooks'[m_hook[r]].m_hotkeyCallbacks :
                         hooks'[m_hook[r]].m_hotkeyCallbacks[k] =
                             hooks[m_hook[r]].m_hotkeyCallbacks[k]
                  /\ hooks' = [hooks EXCEPT ![m_hook[r]].m_hotkeyCallbacks =
                                   hooks'[m_hook[r]].m_hotkeyCallbacks]
             ELSE /\ last'.ret = "false"
                  /\ m_registeredHotkeys' = m_registeredHotkeys
                  /\ hooks' = hooks]_vars

\* UnregisterHotkey returned true and another action is still registered.
C18_Witness ==
    \E r \in Managers :
        /\ last.op = "UnregisterHotkey" /\ last.manager = r /\ last.ret = "true"
        /\ LastKey \notin DOMAIN m_registeredHotkeys[r]
        /\ GetHotkeyCount(r) = 1
        /\ DOMAIN hooks[m_hook[r]].m_hotkeyCallbacks = DOMAIN m_registeredHotkeys[r]

\* A hook object with the modifier flags of a mask held down.
WithHeld(h, mask) ==
    [h EXCEPT !.m_winKeyDown = (mask \div MOD_WIN) % 2 = 1,
              !.m_ctrlKeyDown = (mask \div MOD_CTRL) % 2 = 1,
              !.m_shiftKeyDown = (mask \div MOD_SHIFT) % 2 = 1,
              !.m_altKeyDown = (mask \div MOD_ALT) % 2 = 1]

\* C19: RegisterHotkey of a non-empty action right after a successful
\* UnregisterHotkey of the same combination on the same manager returns
\* true, the action table holds the new action, and a press of the key with
\* the mask held calls the binding that forwards to the new action.
C19_UnregisterThenRegister ==
    [][(/\ last.op = "UnregisterHotkey" /\ last.ret = "true"
        /\ last'.op = "RegisterHotkey" /\ last'.manager = last.manager
        /\ LastKey' = LastKey
        /\ last'.arg.action # nullptr)
       => LET r == last.manager
              press == HandleKeyboardMessage(
                           WithHeld(hooks'[m_hook'[r]], last'.arg.modifiers),
                           HC_ACTION, "WM_KEYDOWN", last'.arg.vkCode, "returns")
          IN  /\ last'.ret = "true"
              /\ m_isRunning'[r]
              /\ m_registeredHotkeys'[r][LastKey'] = last'.arg
              /\ GetHotkeyCount(r)' = GetHotkeyCount(r) + 1
              /\ Len(press.invoked) = 1
              /\ press.invoked[1].callback = ForwardingCallback(last'.arg.action)]_vars

\* UnregisterHotkey has just returned true, another action is still
\* registered, and RegisterHotkey of the combination with a non-empty action
\* can run next and return true.
C19_Witness ==
    \E r \in Managers, a \in HotkeyActionInputs :
        /\ last.op = "UnregisterHotkey" /\ last.manager = r /\ last.ret = "true"
        /\ GetHotkeyCount(r) = 1
        /\ a.vkCode = last.arg.vkCode /\ a.modifiers = last.arg.modifiers
        /\ a.action # nullptr
        /\ ENABLED (HotkeyManager_RegisterHotkey(r, a) /\ last'.ret = "true")

\* C20: ClearAllHotkeys returns in every lifecycle state and leaves the
\* action table and the table of the manager's hook empty; on a Stopped
\* manager it changes nothing. Right after it returned, a second call is
\* possible and changes nothing.
C20_ClearAllIdempotent ==
    /\ [](\A r \in Managers :
             (last.op = "ClearAllHotkeys" /\ last.manager = r)
             => /\ GetHotkeyCount(r) = 0
                /\ m_hook[r] # nullptr =>
                       DOMAIN hooks[m_hook[r]].m_hotkeyCallbacks = {}
                /\ ENABLED HotkeyManager_ClearAllHotkeys(r)
                /\ ~ENABLED (HotkeyManager_ClearAllHotkeys(r) /\ vars' # vars))
    /\ [][\A r \in Managers :
             (last'.op = "ClearAllHotkeys" /\ last'.manager = r)
             => /\ last'.ret = "void"
                /\ UNCHANGED <<s_instance, osHooks, alive, m_hook, m_isRunning>>
                /\ \A q \in Managers \ {r} :
                       m_registeredHotkeys'[q] = m_registeredHotkeys[q]
                /\ IF m_isRunning[r]
                   THEN hooks' = [hooks EXCEPT ![m_hook[r]].m_hotkeyCallbacks = NoCallbacks]
                   ELSE UNCHANGED <<hooks, m_registeredHotkeys>>]_vars

\* ClearAllHotkeys returned on a Running manager whose hook is installed and
\* has a modifier flag set.
C20_Witness ==
    \E r \in Managers :
        /\ last.op = "ClearAllHotkeys" /\ last.manager = r
        /\ m_isRunning[r] /\ GetHotkeyCount(r) = 0
        /\ IsInstalled(hooks[m_hook[r]]) /\ hooks[m_hook[r]].m_winKeyDown
        /\ DOMAIN hooks[m_hook[r]].m_hotkeyCallbacks = {}

\* The threads that are inside a method of manager r, past its lock_guard.
InsideMethod(r) ==
    {t \in Threads : pc[t].manager = r /\ pc[t].at \notin {"idle", "lock_guard", "joined"}}

\* C15: at most one thread at a time is inside a method of a manager. When
\* every thread has run one RegisterHotkey call with a non-empty action on
\* the Running manager and has ended: if the combinations are pairwise
\* distinct, every call returned true and the count is the number of
\* threads; if all threads used the same combination, exactly one call
\* returned true and the count is 1.
C15_RegisterAtomic ==
    /\ \A r \in Managers : Cardinality(InsideMethod(r)) <= 1
    /\ \A r \in Managers :
          (/\ m_isRunning[r]
           /\ \A t \in Threads :
                 /\ pc[t].at = "joined" /\ pc[t].manager = r
                 /\ pc[t].arg.action # nullptr)
          => LET key(t) == MakeHotkeyKey(pc[t].arg.vkCode, pc[t].arg.modifiers)
                 won == {t \in Threads : pc[t].ret = "true"}
             IN  /\ (\A t, u \in Threads : t # u => key(t) # key(u))
                    => won = Threads /\ GetHotkeyCount(r) = Cardinality(Threads)
                 /\ (\A t, u \in Threads : key(t) = key(u))
                    => Cardinality(won) = 1 /\ GetHotkeyCount(r) = 1

\* Two threads have registered the same combination with different actions
\* on the Running manager; one of them got true.
C15_Witness ==
    /\ m_isRunning["A"]
    /\ \A t \in Threads : pc[t].at = "joined" /\ pc[t].arg.action # nullptr
    /\ \A t, u \in Threads :
           MakeHotkeyKey(pc[t].arg.vkCode, pc[t].arg.modifiers)
               = MakeHotkeyKey(pc[u].arg.vkCode, pc[u].arg.modifiers)
    /\ \E t, u \in Threads : pc[t].arg.action # pc[u].arg.action
    /\ \E t, u \in Threads : pc[t].ret = "true" /\ pc[u].ret = "false"

\* Thread t holds the lock of the manager that owns hook object h, and its
\* next statement writes the table of h or destroys h.
WritesHook(t, h) ==
    LET r == pc[t].manager
    IN  /\ r \in Managers /\ m_mutex[r] = t /\ m_hook[r] = h
        /\ \/ pc[t].at \in {"m_hook->RegisterHotkey", "m_hook->UnregisterHotkey",
                            "ClearAllHotkeys"}
           \/ pc[t].at = "Stop" /\ m_isRunning[r]

\* C16: while the handler is between the find in the table and the end of
\* the call through the iterator, no other thread is at a statement of a
\* manager method that writes the table of that hook object or destroys it.
C16_DispatchExclusive ==
    At(HookThread, "it->second")
    => \A t \in OtherThreads : ~WritesHook(t, pc[HookThread].instance)

\* A thread is inside a call of a manager method: it waits for the lock or
\* runs the body.
InCall(t) ==
    pc[t].at \notin {"idle", "joined", "terminated", "it->second", "action returns",
                     "CallNextHookEx"}
ProcessEnded == \A t \in Threads : pc[t] = Terminated

\* C17: under fair scheduling every call of a manager method returns, from
\* whichever thread and also from inside a callback, and every lock that is
\* held is released, as long as the process lives; a lock is held only by a
\* thread that is inside a method of that manager.
C17_NoBlocking ==
    /\ \A t \in Threads : InCall(t) ~> ~InCall(t)
    /\ \A r \in Managers : (m_mutex[r] # "free") ~> (m_mutex[r] = "free" \/ ProcessEnded)
    /\ [](\A r \in Managers :
             (m_mutex[r] # "free" /\ ~ProcessEnded)
             => (InCall(m_mutex[r]) /\ pc[m_mutex[r]].manager = r
                 /\ ~At(m_mutex[r], "lock_guard")))

\* The action of a callback has called a method of the manager and waits for
\* the lock, which the other thread holds.
C17_Witness ==
    /\ At(HookThread, "lock_guard")
    /\ "frame" \in DOMAIN pc[HookThread]
    /\ \E t \in OtherThreads : m_mutex[pc[HookThread].manager] = t

\* C21: GetHotkeyCount returns the number of entries of the action table,
\* and GetRegisteredHotkeys returns a sequence of that length that holds,
\* for every registered combination, the stored action exactly once.
C21_CountMatchesList ==
    \A r \in Managers :
        /\ (last.op = "GetHotkeyCount" /\ last.manager = r)
           => last.size = Cardinality(DOMAIN m_registeredHotkeys[r])
        /\ (last.op = "GetRegisteredHotkeys" /\ last.manager = r)
           => /\ Len(last.result) = Cardinality(DOMAIN m_registeredHotkeys[r])
              /\ \A k \in DOMAIN m_registeredHotkeys[r] :
                     Cardinality({i \in DOMAIN last.result :
                                     last.result[i] = m_registeredHotkeys[r][k]}) = 1
              /\ \A i \in DOMAIN last.result :
                     LET k == MakeHotkeyKey(last.result[i].vkCode,
                                            last.result[i].modifiers)
                     IN  /\ k \in DOMAIN m_registeredHotkeys[r]
                         /\ last.result[i] = m_registeredHotkeys[r][k]

\* GetRegisteredHotkeys returned two actions on a Running manager.
C21_Witness ==
    \E r \in Managers :
        /\ last.op = "GetRegisteredHotkeys" /\ last.manager = r
        /\ m_isRunning[r] /\ Len(last.result) = 2
        /\ last.result[1] # last.result[2]

\* C22: IsHotkeyConflict returns true exactly when the action table of the
\* manager holds an entry for that key code with that modifier mask, whether
\* the manager is Running or Stopped, and the call changes nothing.
C22_ConflictIsMembership ==
    /\ [](\A r \in Managers :
             (last.op = "IsHotkeyConflict" /\ last.manager = r)
             => (last.ret = "true"
                 <=> \E k \in DOMAIN m_registeredHotkeys[r] :
                        /\ m_registeredHotkeys[r][k].vkCode = last.arg.vkCode
                        /\ m_registeredHotkeys[r][k].modifiers = last.arg.modifiers)
                /\ last.ret \in {"true", "false"})
    /\ [][last'.op = "IsHotkeyConflict"
          => UNCHANGED <<s_instance, hooks, osHooks, alive, m_hook, m_isRunning,
                         m_registeredHotkeys, m_mutex>>]_vars

\* IsHotkeyConflict returned false for a combination whose key code is
\* registered with another modifier mask.
C22_Witness ==
    \E r \in Managers :
        /\ last.op = "IsHotkeyConflict" /\ last.manager = r /\ last.ret = "false"
        /\ \E k \in DOMAIN m_registeredHotkeys[r] :
               /\ m_registeredHotkeys[r][k].vkCode = last.arg.vkCode
               /\ m_registeredHotkeys[r][k].modifiers # last.arg.modifiers

\* C23: on a Running manager, RegisterHotkey of a combination that is not in
\* the action table, with a non-null action, returns true whatever else is
\* registered, also entries with the same key code or the same modifier mask;
\* the count grows by exactly one, the new entry is the given action and
\* every other stored action and hook binding stays as it was.
C23_IndependentRegistration ==
    [][\A r \in Managers :
          (/\ last'.op = "RegisterHotkey" /\ last'.manager = r
           /\ m_isRunning[r]
           /\ last'.arg.action # nullptr
           /\ LastKey' \notin DOMAIN m_registeredHotkeys[r])
          => /\ last'.ret = "true"
             /\ GetHotkeyCount(r)' = GetHotkeyCount(r) + 1
             /\ m_registeredHotkeys'[r][LastKey'] = last'.arg
             /\ \A k \in DOMAIN m_registeredHotkeys[r] :
                    /\ k \in DOMAIN m_registeredHotkeys'[r]
                    /\ m_registeredHotkeys'[r][k] = m_registeredHotkeys[r][k]
                    /\ hooks'[m_hook[r]].m_hotkeyCallbacks[k]
                           = hooks[m_hook[r]].m_hotkeyCallbacks[k]
             /\ \A q \in Managers \ {r} :
                    m_registeredHotkeys'[q] = m_registeredHotkeys[q]]_vars

\* RegisterHotkey returned true for a combination whose key code is also
\* registered with another modifier mask.
C23_Witness ==
    \E r \in Managers :
        /\ last.op = "RegisterHotkey" /\ last.manager = r /\ last.ret = "true"
        /\ GetHotkeyCount(r) = 2
        /\ \E k \in DOMAIN m_registeredHotkeys[r] \ {LastKey} :
               /\ m_registeredHotkeys[r][k].vkCode = last.arg.vkCode
               /\ m_registeredHotkeys[r][k].modifiers # last.arg.modifiers

\* The hook object has no modifier flag set.
AllModifiersUp(h) ==
    ~h.m_winKeyDown /\ ~h.m_ctrlKeyDown /\ ~h.m_shiftKeyDown /\ ~h.m_altKeyDown
WinCtrl == BitOr(MOD_WIN, MOD_CTRL)

\* C24: with a binding for (N, Win|Ctrl) and no modifier held, the events
\* Win down, Ctrl down, N down call the binding exactly once, at N down, with
\* the arguments (N, Win|Ctrl); the two modifier presses call nothing and an
\* N up after them calls nothing. No key release and no modifier key ever
\* calls a callback, and one event calls at most one.
C24_FiresOncePerPress ==
    /\ last.op = HandlerOp
       => /\ Len(last.invoked) <= 1
          /\ (last.wParam \in {"WM_KEYUP", "WM_SYSKEYUP"} => last.invoked = <<>>)
          /\ (IsModifierKey(last.vkCode) => last.invoked = <<>>)
    /\ \A r \in Managers :
          (/\ m_isRunning[r] /\ s_instance = m_hook[r]
           /\ MakeHotkeyKey(VK_N, WinCtrl) \in DOMAIN m_registeredHotkeys[r]
           /\ AllModifiersUp(hooks[s_instance]))
          => \A win \in {VK_LWIN, VK_RWIN},
                ctrl \in {VK_LCONTROL, VK_RCONTROL, VK_CONTROL},
                b \in Behaviours :
                LET e1 == HandleKeyboardMessage(hooks[s_instance], HC_ACTION,
                                                "WM_KEYDOWN", win, b)
                    e2 == HandleKeyboardMessage(e1.hook, HC_ACTION,
                                                "WM_KEYDOWN", ctrl, b)
                    e3 == HandleKeyboardMessage(e2.hook, HC_ACTION,
                                                "WM_KEYDOWN", VK_N, b)
                    e4 == HandleKeyboardMessage(e3.hook, HC_ACTION,
                                                "WM_KEYUP", VK_N, b)
                IN  /\ e1.invoked = <<>>
                    /\ e2.invoked = <<>>
                    /\ e3.invoked =
                         <<[callback |-> ForwardingCallback(
                                m_registeredHotkeys[r][MakeHotkeyKey(VK_N, WinCtrl)].action),
                            vkCode |-> VK_N, modifiers |-> WinCtrl]>>
                    /\ e4.invoked = <<>>
                    /\ e4.forwards = 1

\* The press of N, with Win and Ctrl held by earlier events, called the
\* binding of (N, Win|Ctrl) once.
C24_Witness ==
    /\ last.op = HandlerOp /\ last.wParam = "WM_KEYDOWN" /\ last.vkCode = VK_N
    /\ Len(last.invoked) = 1
    /\ last.invoked[1].modifiers = WinCtrl
    /\ last.invoked[1].vkCode = VK_N
    /\ last.invoked[1].callback = ForwardingCallback("actA")
    /\ GetCurrentModifiers(hooks[s_instance]) = WinCtrl

\* The hook object after the handler has seen one event of a key.
AfterEvent(h, wParam, vkCode) ==
    HandleKeyboardMessage(h, HC_ACTION, wParam, vkCode, "returns").hook
CtrlKeys == {VK_LCONTROL, VK_RCONTROL, VK_CONTROL}

\* C25 as stated: after left-Ctrl down and right-Ctrl down, the release of
\* only one of the two leaves the Ctrl flag set, and the flag is cleared only
\* by the release of the second one.
C25_CtrlHeldUntilBothReleased ==
    s_instance # nullptr
    => \A first \in {VK_LCONTROL, VK_RCONTROL} :
          LET second == IF first = VK_LCONTROL THEN VK_RCONTROL ELSE VK_LCONTROL
              h1 == AfterEvent(hooks[s_instance], "WM_KEYDOWN", VK_LCONTROL)
              h2 == AfterEvent(h1, "WM_KEYDOWN", VK_RCONTROL)
              h3 == AfterEvent(h2, "WM_KEYUP", first)
              h4 == AfterEvent(h3, "WM_KEYUP", second)
          IN  h2.m_ctrlKeyDown /\ h3.m_ctrlKeyDown /\ ~h4.m_ctrlKeyDown

\* C25, amended: the Ctrl flag is one boolean for the three Ctrl key codes
\* and holds the direction of the latest event of any of them. After
\* left-Ctrl down and right-Ctrl down the flag is set, and the release of
\* either one clears it although the other is still held; a press of N then
\* looks up (N, no Ctrl).
C25_LastCtrlEventWins ==
    /\ (/\ last.op = HandlerOp /\ last.instance # nullptr
        /\ last.nCode = HC_ACTION /\ last.vkCode \in CtrlKeys)
       => (hooks[last.instance].m_ctrlKeyDown <=> last.wParam \in KeyDownMessages)
    /\ s_instance # nullptr
       => \A first \in {VK_LCONTROL, VK_RCONTROL} :
             LET second == IF first = VK_LCONTROL THEN VK_RCONTROL ELSE VK_LCONTROL
                 h1 == AfterEvent(hooks[s_instance], "WM_KEYDOWN", VK_LCONTROL)
                 h2 == AfterEvent(h1, "WM_KEYDOWN", VK_RCONTROL)
                 h3 == AfterEvent(h2, "WM_KEYUP", first)
                 h4 == AfterEvent(h3, "WM_KEYUP", second)
             IN  /\ h1.m_ctrlKeyDown /\ h2.m_ctrlKeyDown
                 /\ ~h3.m_ctrlKeyDown /\ ~h4.m_ctrlKeyDown
                 /\ (GetCurrentModifiers(h3) \div MOD_CTRL) % 2 = 0

\* The release of right-Ctrl cleared the Ctrl flag of the live hook while
\* the Win flag stays set.
C25_Witness ==
    /\ last.op = HandlerOp /\ last.instance # nullptr /\ last.instance = s_instance
    /\ last.wParam = "WM_KEYUP" /\ last.vkCode = VK_RCONTROL
    /\ ~hooks[s_instance].m_ctrlKeyDown /\ hooks[s_instance].m_winKeyDown

\* C26: dispatch halts as soon as a binding is removed. Every callback a key
\* event calls forwards to an action that the action table of the Running
\* manager owning the live hook holds for that combination at that moment.
\* When UnregisterHotkey has returned true, the combination is in neither
\* table and a press of its key with its mask held calls nothing; when Stop
\* has returned, the manager holds no action and no hook object, and its
\* hook is not the one the hook procedure dispatches to.
C26_DispatchHaltsOnRemoval ==
    /\ (last.op = HandlerOp /\ last.invoked # <<>>)
       => \E r \in Managers :
             /\ m_isRunning[r] /\ m_hook[r] = last.instance
             /\ last.instance = s_instance
             /\ \A i \in DOMAIN last.invoked :
                   LET k == MakeHotkeyKey(last.invoked[i].vkCode,
                                          last.invoked[i].modifiers)
                   IN  /\ k \in DOMAIN m_registeredHotkeys[r]
                       /\ last.invoked[i].callback
                            = ForwardingCallback(m_registeredHotkeys[r][k].action)
    /\ (last.op = HandlerOp /\ last.instance = nullptr) => last.invoked = <<>>
    /\ \A r \in Managers :
          (last.op = "UnregisterHotkey" /\ last.manager = r /\ last.ret = "true")
          => /\ LastKey \notin DOMAIN m_registeredHotkeys[r]
             /\ LastKey \notin DOMAIN hooks[m_hook[r]].m_hotkeyCallbacks
             /\ \A w \in KeyMessages, b \in Behaviours :
                   HandleKeyboardMessage(WithHeld(hooks[m_hook[r]], last.arg.modifiers),
                                         HC_ACTION, w, last.arg.vkCode, b).invoked = <<>>
    /\ \A r \in Managers :
          (last.op = "Stop" /\ last.manager = r)
          => /\ DOMAIN m_registeredHotkeys[r] = {}
             /\ m_hook[r] = nullptr
             /\ r \notin LiveHooks
             /\ s_instance # r

\* UnregisterHotkey has returned true with the mask of the combination held,
\* another combination is still registered, and the press of the key that
\* can come next calls nothing.
C26_Witness ==
    \E r \in Managers :
        /\ last.op = "UnregisterHotkey" /\ last.manager = r /\ last.ret = "true"
        /\ GetHotkeyCount(r) = 1
        /\ s_instance = m_hook[r]
        /\ GetCurrentModifiers(hooks[s_instance]) = last.arg.modifiers
        /\ ENABLED (/\ LowLevelKeyboardProc(HC_ACTION, "WM_KEYDOWN",
                                            last.arg.vkCode, "returns")
                    /\ last'.invoked = <<>>)

\* C27: Install on an installed hook object returns true without asking the
\* OS for a second hook and changes nothing. Install on an uninstalled one
\* asks the OS once: when the OS declines, it returns false, throws nothing,
\* and the object stays uninstalled with IsInstalled() false and no OS hook
\* added; when the OS grants, it returns true and the object is installed.
C27_InstallIdempotentFailsCleanly ==
    [][/\ last'.op = "IsInstalled"
          => (last'.ret = "true" <=> IsInstalled(hooks'[last'.hook]))
       /\ last'.op = "Install"
          =>
          LET h == last'.hook
          IN  /\ last'.ret \in {"true", "false"}
              /\ IsInstalled(hooks[h])
                 => /\ last'.ret = "true" /\ last'.os = "not asked"
                    /\ osHooks' = osHooks /\ hooks' = hooks
              /\ ~IsInstalled(hooks[h])
                 => /\ last'.os \in {"granted", "declined"}
                    /\ last'.os = "declined"
                       => /\ last'.ret = "false"
                          /\ ~IsInstalled(hooks'[h])
                          /\ hooks' = hooks /\ osHooks' = osHooks
                    /\ last'.os = "granted"
                       => /\ last'.ret = "true"
                          /\ IsInstalled(hooks'[h])
                          /\ osHooks' = osHooks + 1]_vars

\* Install returned true on an installed hook object without asking the OS;
\* the process holds one OS hook.
C27_Witness ==
    /\ last.op = "Install" /\ last.os = "not asked" /\ last.ret = "true"
    /\ IsInstalled(hooks[last.hook]) /\ osHooks = 1

AllMasks == 0..15

\* C28: Uninstall on an installed hook object leaves it uninstalled
\* (IsInstalled() false) with the four modifier flags false, whatever flags
\* were set and whatever the OS answers; Uninstall on an uninstalled one
\* returns true and changes nothing; Uninstall never changes the bindings.
C28_UninstallResetsFlags ==
    /\ [](\A h \in LiveHooks, mask \in AllMasks, honoured \in BOOLEAN :
             LET held == WithHeld(hooks[h], mask)
                 u == KeyboardHook_Uninstall(held, honoured)
             IN  /\ u.hook.m_hotkeyCallbacks = held.m_hotkeyCallbacks
                 /\ IsInstalled(held)
                    => ~IsInstalled(u.hook) /\ AllModifiersUp(u.hook)
                 /\ ~IsInstalled(held)
                    => u.hook = held /\ u.ret = TRUE /\ u.os = "not asked")
    /\ [][last'.op = "Uninstall"
          => LET h == last'.hook
             IN  /\ ~IsInstalled(hooks'[h])
                 /\ hooks'[h].m_hotkeyCallbacks = hooks[h].m_hotkeyCallbacks
                 /\ IsInstalled(hooks[h])
                    => /\ AllModifiersUp(hooks'[h])
                       /\ last'.os \in {"honoured", "refused"}
                 /\ ~IsInstalled(hooks[h])
                    => /\ last'.ret = "true" /\ last'.os = "not asked"
                       /\ hooks' = hooks /\ osHooks' = osHooks
                       /\ s_instance' = s_instance]_vars

\* Uninstall has run on an installed hook object that holds a binding: the
\* object is uninstalled, no flag is set and the binding is still there.
C28_Witness ==
    /\ last.op = "Uninstall" /\ last.os = "honoured"
    /\ last.hook \in LiveHooks
    /\ ~IsInstalled(hooks[last.hook]) /\ AllModifiersUp(hooks[last.hook])
    /\ DOMAIN hooks[last.hook].m_hotkeyCallbacks # {}

\* C29: KeyboardHook::RegisterHotkey with a callable callback binds the
\* combination to it, replacing a binding the combination had: the table
\* gains at most that one key, the other bindings stay, and a press of the
\* key with the mask held calls the callback registered last. With an empty
\* callback nothing changes, so an existing binding stays. Neither case
\* depends on the hook being installed, and neither changes that.
C29_RegisterInsertsOrReplaces ==
    [][last'.op = "KeyboardHook::RegisterHotkey"
       => LET h == last'.hook
              cb == last'.arg.callback
              key == MakeHotkeyKey(last'.arg.vkCode, last'.arg.modifiers)
              old == hooks[h].m_hotkeyCallbacks
              new == hooks'[h].m_hotkeyCallbacks
          IN  /\ last'.ret = "void"
              /\ IsInstalled(hooks'[h]) = IsInstalled(hooks[h])
              /\ osHooks' = osHooks /\ s_instance' = s_instance
              /\ IsCallable(cb)
                 => /\ DOMAIN new = DOMAIN old \cup {key}
                    /\ new[key] = cb
                    /\ \A k \in DOMAIN old \ {key} : new[k] = old[k]
                    /\ \A b \in Behaviours :
                          HandleKeyboardMessage(
                              WithHeld(hooks'[h], last'.arg.modifiers), HC_ACTION,
                              "WM_KEYDOWN", last'.arg.vkCode, b).invoked
                          = <<[callback |-> cb, vkCode |-> last'.arg.vkCode,
                               modifiers |-> last'.arg.modifiers]>>
              /\ ~IsCallable(cb) => hooks' = hooks]_vars

\* RegisterHotkey has bound a combination of an uninstalled hook object to
\* the second callback; the object holds another binding too.
C29_Witness ==
    /\ last.op = "KeyboardHook::RegisterHotkey"
    /\ last.arg.callback = DirectCallback("cbB")
    /\ last.hook \in LiveHooks /\ ~IsInstalled(hooks[last.hook])
    /\ hooks[last.hook].m_hotkeyCallbacks[
           MakeHotkeyKey(last.arg.vkCode, last.arg.modifiers)] = DirectCallback("cbB")
    /\ Cardinality(DOMAIN hooks[last.hook].m_hotkeyCallbacks) = 2

\* The pairs an identity is compared with: every pair of small values, the
\* pair with key code and mask swapped, and the pairs of large values.
ComparedPairs ==
    ((0..MaxModifierMask) \X (0..MaxModifierMask))
    \cup {<<last.arg.modifiers, last.arg.vkCode>>}
    \cup (LargeDwords \X LargeDwords)

\* C30: the identity of a combination is injective: its high half is the
\* modifier mask and its low half the key code, so the pair can be read back
\* from it, and no other pair gives the same identity. KeyboardHook,
\* HotkeyManager and HotkeyConfig compute the same identity for a pair.
C30_IdentityInjective ==
    last.op = "identity"
    => /\ last.keyboardHook = last.hotkeyManager
       /\ last.keyboardHook = last.hotkeyConfig
       /\ last.keyboardHook.hi = last.arg.modifiers
       /\ last.keyboardHook.lo = last.arg.vkCode
       /\ \A q \in ComparedPairs :
             q # <<last.arg.vkCode, last.arg.modifiers>>
             => /\ MakeHotkeyKey(q[1], q[2]) # last.keyboardHook
                /\ HotkeyManager_MakeHotkeyKey(q[1], q[2]) # last.hotkeyManager
                /\ HotkeyConfig_GetUniqueId(HotkeyConfig(q[1], q[2], "actA", "first"))
                       # last.hotkeyConfig

\* The identity of (key code 3, mask 12) has been computed; without the
\* shift it would be that of (key code 12, mask 3).
C30_Witness ==
    /\ last.op = "identity"
    /\ last.arg.vkCode = 3 /\ last.arg.modifiers = 12
    /\ last.keyboardHook = [hi |-> 12, lo |-> 3]
    /\ last.hotkeyConfig # MakeHotkeyKey(12, 3)

\* The flag of the group a modifier key code belongs to.
GroupFlag(h, vkCode) ==
    IF vkCode \in {VK_LWIN, VK_RWIN} THEN h.m_winKeyDown
    ELSE IF vkCode \in {VK_LCONTROL, VK_RCONTROL, VK_CONTROL} THEN h.m_ctrlKeyDown
    ELSE IF vkCode \in {VK_LSHIFT, VK_RSHIFT, VK_SHIFT} THEN h.m_shiftKeyDown
    ELSE h.m_altKeyDown

\* C31: the flag of a modifier group is the direction of the latest event of
\* a key of that group, and false when there was none since the
\* installation: an event of a modifier key leaves the flag of its group at
\* the direction of the event, and when Install has just installed the hook,
\* so that no event has come since, the four flags are false.
C31_FlagIsLatestDirection ==
    /\ (/\ last.op = HandlerOp /\ last.instance # nullptr
        /\ last.nCode = HC_ACTION /\ IsModifierKey(last.vkCode))
       => (GroupFlag(hooks[last.instance], last.vkCode)
             <=> last.wParam \in KeyDownMessages)
    /\ (last.op = "Install" /\ last.os = "granted" /\ last.ret = "true")
       => AllModifiersUp(hooks[last.hook])

\* C32: whenever a Running manager is between two of its operations (its
\* lock is free), the table of its hook holds exactly the combinations of
\* its action table, and the binding of each combination is the lambda that
\* forwards to the action stored for it.
C32_TablesAgree ==
    \A r \in Managers :
        (m_isRunning[r] /\ m_mutex[r] = "free")
        => /\ m_hook[r] \in LiveHooks
           /\ DOMAIN hooks[m_hook[r]].m_hotkeyCallbacks = DOMAIN m_registeredHotkeys[r]
           /\ \A k \in DOMAIN m_registeredHotkeys[r] :
                  hooks[m_hook[r]].m_hotkeyCallbacks[k]
                      = ForwardingCallback(m_registeredHotkeys[r][k].action)

\* UnregisterHotkey has returned true on a Running manager and left one of
\* two entries: both tables hold that combination and no other.
C32_Witness ==
    \E r \in Managers :
        /\ last.op = "UnregisterHotkey" /\ last.manager = r /\ last.ret = "true"
        /\ m_isRunning[r] /\ m_mutex[r] = "free"
        /\ Cardinality(DOMAIN m_registeredHotkeys[r]) = 1
        /\ DOMAIN hooks[m_hook[r]].m_hotkeyCallbacks = DOMAIN m_registeredHotkeys[r]
        /\ LastKey \notin DOMAIN hooks[m_hook[r]].m_hotkeyCallbacks

\* C33: whenever a manager is between two of its operations (its lock is
\* free), it is Running exactly if it owns a hook object, and the object a
\* Running manager owns is alive and installed.
C33_RunningIffOwnsInstalledHook ==
    \A r \in Managers :
        m_mutex[r] = "free"
        => /\ m_isRunning[r] <=> m_hook[r] # nullptr
           /\ m_isRunning[r] => /\ m_hook[r] \in LiveHooks
                                /\ IsInstalled(hooks[m_hook[r]])
           /\ ~m_isRunning[r] => r \notin LiveHooks

\* Start has failed because the OS declined the hook: the manager is
\* Stopped and owns no hook object.
C33_Witness ==
    \E r \in Managers :
        /\ last.op = "Start" /\ last.manager = r /\ last.os = "declined"
        /\ ~m_isRunning[r] /\ m_hook[r] = nullptr /\ r \notin LiveHooks
        /\ m_mutex[r] = "free"

\* Where the handler is: its own position, also while the callback it called
\* is inside a method of a manager.
HandlerFrame ==
    IF "frame" \in DOMAIN pc[HookThread] THEN pc[HookThread].frame ELSE pc[HookThread]
InDispatch ==
    /\ HandlerFrame.at \in {"it->second", "action returns", "CallNextHookEx"}
    /\ HandlerFrame.instance # nullptr

\* C34: while the handler has not yet forwarded the event, the hook object
\* it runs on is alive, and while it is still in the callback, every binding
\* of the table it looked the callback up in (the model registers one) is
\* still in the table; also when the callback or another thread calls Stop,
\* UnregisterHotkey or ClearAllHotkeys.
C34_HookOutlivesDispatch ==
    InDispatch
    => /\ HandlerFrame.instance \in LiveHooks
       /\ HandlerFrame.at \in {"it->second", "action returns"}
          => \A k \in DOMAIN HandlerFrame.seen :
                k \in DOMAIN hooks[HandlerFrame.instance].m_hotkeyCallbacks

C36_ModifierKeyBindingNeverFires ==
    /\ [](/\ \A r \in Managers :
               (/\ last.op = "RegisterHotkey" /\ last.manager = r
                /\ last.ret = "true")
               => /\ LastKey \in DOMAIN m_registeredHotkeys[r]
                  /\ LastKey \in DOMAIN hooks[m_hook[r]].m_hotkeyCallbacks
                  /\ IsCallable(hooks[m_hook[r]].m_hotkeyCallbacks[LastKey])
          /\ last.op = HandlerOp
             => /\ \A i \in DOMAIN last.invoked :
                       ~(last.invoked[i].vkCode \in ModifierKeys)
                /\ last.invoked = <<>>)
    /\ [][\A r \in Managers :
             (/\ last'.op = "RegisterHotkey" /\ last'.manager = r
              /\ last'.arg.vkCode \in ModifierKeys
              /\ m_isRunning[r] /\ last'.arg.action # nullptr
              /\ LastKey' \notin DOMAIN m_registeredHotkeys[r])
             => /\ last'.ret = "true"
                /\ GetHotkeyCount(r)' = GetHotkeyCount(r) + 1]_vars

\* Left Win goes down while the hook holds a binding for (left Win, Win):
\* the lookup finds the binding, and nothing is called.
C36_Witness ==
    /\ last.op = HandlerOp /\ last.instance # nullptr
    /\ last.wParam = "WM_KEYDOWN" /\ last.vkCode = VK_LWIN
    /\ GetCurrentModifiers(hooks[last.instance]) = MOD_WIN
    /\ MakeHotkeyKey(VK_LWIN, MOD_WIN) \in DOMAIN hooks[last.instance].m_hotkeyCallbacks
    /\ last.invoked = <<>>

\* C37: the handler does not debounce. When a press of a key has called a
\* binding, each further press of that key with no release in between calls
\* the same binding again, once per press, whatever the callback did, and
\* leaves the hook object as it is: three more presses give three more calls.
C37_EveryPressFires ==
    (/\ last.op = HandlerOp /\ last.instance \in LiveHooks
     /\ last.nCode = HC_ACTION /\ Len(last.invoked) = 1)
    => \A w \in KeyDownMessages, b \in Behaviours :
          LET h0 == hooks[last.instance]
              e1 == HandleKeyboardMessage(h0, HC_ACTION, w, last.vkCode, b)
              e2 == HandleKeyboardMessage(e1.hook, HC_ACTION, w, last.vkCode, b)
              e3 == HandleKeyboardMessage(e2.hook, HC_ACTION, w, last.vkCode, b)
          IN  /\ e1.invoked = last.invoked
              /\ e2.invoked = last.invoked
              /\ e3.invoked = last.invoked
              /\ e3.hook = h0
              /\ e1.forwards = 1 /\ e2.forwards = 1 /\ e3.forwards = 1

\* A press of N with Win and Ctrl held has called the binding, and the next
\* press of N that can follow calls it again.
C37_Witness ==
    /\ last.op = HandlerOp /\ last.instance \in LiveHooks
    /\ last.wParam = "WM_KEYDOWN" /\ last.vkCode = VK_N
    /\ Len(last.invoked) = 1
    /\ last.invoked[1].modifiers = WinCtrl
    /\ ENABLED (/\ LowLevelKeyboardProc(HC_ACTION, "WM_KEYDOWN", VK_N, "throws")
                /\ Len(last'.invoked) = 1
                /\ last'.invoked[1].callback = last.invoked[1].callback)

\* The four modifier flags of a hook object, and those outside the group of
\* a key code.
Flags(h) == <<h.m_winKeyDown, h.m_ctrlKeyDown, h.m_shiftKeyDown, h.m_altKeyDown>>
OtherFlags(h, vkCode) ==
    <<h.m_winKeyDown \/ vkCode \in {VK_LWIN, VK_RWIN},
      h.m_ctrlKeyDown \/ vkCode \in {VK_LCONTROL, VK_RCONTROL, VK_CONTROL},
      h.m_shiftKeyDown \/ vkCode \in {VK_LSHIFT, VK_RSHIFT, VK_SHIFT},
      h.m_altKeyDown \/ vkCode \in {VK_LMENU, VK_RMENU, VK_MENU}>>

\* C38: the modifier flags of a hook object change only in the event handler
\* and in Uninstall. An event changes at most the flag of the group of its
\* key code; an event of another key, and an event whose code is not
\* HC_ACTION, change no flag; Install, RegisterHotkey, UnregisterHotkey and
\* ClearAllHotkeys change no flag.
C38_FlagsFrame ==
    /\ [](\A h \in LiveHooks, vk \in EventKeys, w \in KeyMessages :
             LET e == HandleKeyboardMessage(hooks[h], HC_ACTION, w, vk, "returns")
                 s == HandleKeyboardMessage(hooks[h], HC_SKIP, w, vk, "returns")
             IN  /\ OtherFlags(e.hook, vk) = OtherFlags(hooks[h], vk)
                 /\ ~IsModifierKey(vk) => Flags(e.hook) = Flags(hooks[h])
                 /\ Flags(s.hook) = Flags(hooks[h]))
    /\ [][\A h \in LiveHooks \cap LiveHooks' :
             Flags(hooks'[h]) # Flags(hooks[h])
             => \/ /\ last'.op = HandlerOp /\ last'.instance = h
                   /\ last'.nCode = HC_ACTION /\ IsModifierKey(last'.vkCode)
                   /\ OtherFlags(hooks'[h], last'.vkCode)
                          = OtherFlags(hooks[h], last'.vkCode)
                \/ /\ last'.op = "Uninstall" /\ last'.hook = h
                   /\ IsInstalled(hooks[h])]_vars

\* ClearAllHotkeys has run on an installed hook object with Win and Ctrl
\* held: the flags are still set.
C38_Witness ==
    /\ last.op = "KeyboardHook::ClearAllHotkeys" /\ last.hook \in LiveHooks
    /\ IsInstalled(hooks[last.hook])
    /\ hooks[last.hook].m_winKeyDown /\ hooks[last.hook].m_ctrlKeyDown
    /\ DOMAIN hooks[last.hook].m_hotkeyCallbacks = {}

\* C39: a hook object that is not installed has its four modifier flags
\* false, where key events reach the handler as long as the OS holds a hook
\* of the process.
C39_UninstalledMeansFlagsUp ==
    \A h \in LiveHooks : ~IsInstalled(hooks[h]) => AllModifiersUp(hooks[h])

\* C40: a manager can be started again and starts clean. When Stop has
\* returned on a manager that was Running, the singleton slot is empty, and
\* with the slot empty a Start of that manager that the OS grants returns
\* true. When a Start has installed a hook, the
\* manager is Running with an empty action table and a new hook object
\* with no binding and no flag set, so no key event calls an action from
\* before; and RegisterHotkey of every combination with a non-empty action
\* returns true.
C40_RestartsClean ==
    \A r \in Managers :
        /\ (last.op = "Stop" /\ last.manager = r)
           => /\ ~m_isRunning[r]
              /\ last.os # "not asked" => s_instance = nullptr
              /\ s_instance = nullptr
                 => ENABLED (/\ HotkeyManager_Start(r, TRUE)
                             /\ last'.ret = "true" /\ m_isRunning'[r]
                             /\ hooks'[m_hook'[r]]
                                  = KeyboardHook_Install(NewKeyboardHook, TRUE).hook
                             /\ DOMAIN m_registeredHotkeys'[r] = {})
        /\ (last.op = "Start" /\ last.manager = r /\ last.os = "granted")
           => /\ last.ret = "true" /\ m_isRunning[r]
              /\ s_instance = m_hook[r]
              /\ DOMAIN m_registeredHotkeys[r] = {}
              /\ hooks[m_hook[r]] = KeyboardHook_Install(NewKeyboardHook, TRUE).hook
              /\ \A mask \in AllMasks, vk \in FewEventKeys, w \in KeyMessages :
                    HandleKeyboardMessage(WithHeld(hooks[m_hook[r]], mask),
                                          HC_ACTION, w, vk, "returns").invoked = <<>>
              /\ \A a \in HotkeyActionInputs :
                    a.action # nullptr
                    => ENABLED (/\ HotkeyManager_RegisterHotkey(r, a)
                                /\ last'.ret = "true")

\* Stop has destroyed the hook of a Running manager, and the Start of the
\* same manager that can follow returns true with a new hook and no action,
\* after which an action can be registered.
C40_Witness ==
    \E r \in Managers :
        /\ last.op = "Stop" /\ last.manager = r /\ last.os = "honoured"
        /\ ~m_isRunning[r] /\ s_instance = nullptr /\ osHooks = 0
        /\ ENABLED (/\ HotkeyManager_Start(r, TRUE)
                    /\ last'.ret = "true" /\ osHooks' = 1
                    /\ GetHotkeyCount(r)' = 0)
====
